---- MODULE Spec2Model ----
(***************************************************************************)
(* financeATP: event-sourced double-entry ledger.                          *)
(*                                                                         *)
(* The model follows the command path of the handlers (create-user, mint,  *)
(* transfer, burn).  A handler run is a sequence of steps: its validation  *)
(* and aggregate loads (reads only, one step), the statements of           *)
(* EventStore::try_append_atomic one by one (idempotency check, key        *)
(* insert, version read, event insert, commit), the projection             *)
(* transaction with the snapshot write, and the response.  Transactions    *)
(* are opened with pool.begin(), i.e. at the store's default isolation:    *)
(* every statement reads what is committed at that moment, rows written by *)
(* a transaction become visible at its commit, and an insert that collides *)
(* with a row another open transaction has written waits for that          *)
(* transaction.  Ids the code draws with Uuid::new_v4() or gets from the   *)
(* store are numbers derived from the number of the handler run.           *)
(* Amounts are whole numbers of a unit of 1000 ATP, so that the cap of     *)
(* 10^12 ATP is 10^9 units (the decimal scale is not modelled).            *)
(***************************************************************************)
EXTENDS Integers, Sequences, FiniteSets, TLC

(* ----------------------------- bounds ---------------------------------- *)
\* mint / transfer / burn runs in one behaviour, the first mint included
MaxMoneyCmds == 3
\* create-user runs in one behaviour, the first user's included
MaxUserCmds == 2
\* largest amount a command carries
MaxAmount == 2
\* minutes the clock runs in one behaviour
MaxClock == 6
\* events in a stream that is folded with Account::apply
MaxStream == 4
\* freeze / unfreeze runs in one behaviour
MaxFreezeCmds == 2
\* update-user and deactivate-user runs that reach append_atomic
MaxProfileCmds == 2
\* entries written to the audit log in one behaviour
MaxAudit == 3
\* entries of the audit chain that is tampered with once
ChainLen == 100
\* the last year the partition job runs in
MaxYear == 2025

(* ------------------------ program constants ---------------------------- *)
\* MAX_AMOUNT = "1000000000000" ATP, in units of 1000 ATP
MAX_AMOUNT == 1000000000
MAX_RETRIES == 3
SNAPSHOT_INTERVAL == 100
\* minutes after which a processing key counts as stuck
STALE_MINUTES == 5
\* verify_hash_chain: limit.unwrap_or(1000)
DEFAULT_LIMIT == 1000
\* SYSTEM_MINT / SYSTEM_BURN user ids and the ids of their seeded accounts
SYSTEM_MINT_USER_ID == 1001
SYSTEM_BURN_USER_ID == 1002
MintAccountId == 2001
BurnAccountId == 2002
\* ids handed out by Uuid::new_v4() / the store are unique per handler run
AccountIdBase == 3000
EventIdBase == 10
SeedEventId == 1

\* handler tasks that can run concurrently, and the user ids commands can name
Procs == {1, 2}
Users == {1, 2}
Keys == {"K1"}
\* request hashes a caller of the idempotency repository passes
Hashes == {"h1", "h2"}
NoKey == "NoKey"
KeyInputs == Keys \cup {NoKey}
AmountInputs == 0..MaxAmount
NoUser == 0

VARIABLES
    events,            \* table events (committed rows)
    idempotency_keys,  \* table idempotency_keys (committed rows), key -> row
    users,             \* table users (committed rows)
    accounts,          \* table accounts (committed rows)
    account_balances,  \* table account_balances, account id -> row
    ledger_entries,    \* table ledger_entries (committed rows)
    event_snapshots,   \* table event_snapshots, aggregate id -> row
    task,              \* per handler task: position and locals
    ncmd,              \* runs started so far (money, user, freeze, profile)
    now,               \* the store's clock, NOW() and Utc::now(), in minutes
    applied,           \* the AccountEvents applied to `aggregate`, in order
    aggregate,         \* an Account or a User in memory, folded by apply
    audit_logs,        \* table audit_logs, in sequence_number order
    verification,      \* the last ChainVerificationResult, NoResult before
    today,             \* the date of Utc::now(): year, month, day
    partitions         \* the monthly partitions of events and ledger_entries

vars == <<events, idempotency_keys, users, accounts, account_balances,
          ledger_entries, event_snapshots, task, ncmd, now, applied, aggregate,
          audit_logs, verification, today, partitions>>

\* the audit log and the verifier's result
audit == <<audit_logs, verification>>

\* the result of no verification
NoResult ==
    [is_valid |-> TRUE, entries_checked |-> 0, first_invalid_entry |-> 0, limit |-> 0]

\* the date and the partitions the maintenance loop creates
calendar == <<today, partitions>>

\* what no step of a command handler writes
outside == <<now, applied, aggregate, audit, calendar>>

\* a date of the deployment: the day the store was seeded
FirstDay == [year |-> 2026, month |-> 1, day |-> 1]

(* ------------------------- value types --------------------------------- *)

\* Amount::new: > 0 and <= MAX_AMOUNT
Amount_new_ok(value) == value > 0 /\ value <= MAX_AMOUNT

\* Balance::new: >= 0 and <= MAX_AMOUNT
Balance_new_ok(value) == value >= 0 /\ value <= MAX_AMOUNT

is_sufficient_for_anything(balance, amount) == TRUE

\* Balance::is_sufficient_for
is_sufficient_for(balance, amount) == balance >= amount

(* --------------------------- aggregate --------------------------------- *)

\* Account::default; created_at is "None" or "Some" (the time itself is not
\* modelled: it is copied from the AccountCreated event and never compared)
DefaultAccount ==
    [id |-> 0, user_id |-> 0, account_type |-> "", balance |-> 0,
     status |-> "Active", version |-> 0, created_at |-> "None"]

apply_stops_on_error(acc, e) ==
    IF /\ e.event_type \in {"MoneyCredited", "MoneyDebited"}
       /\ \/ ~Amount_new_ok(e.amount)
          \/ ~Balance_new_ok(IF e.event_type = "MoneyCredited"
                             THEN acc.balance + e.amount ELSE acc.balance - e.amount)
    THEN acc
    ELSE [acc EXCEPT !.version = @ + 1,
                     !.balance = CASE e.event_type = "MoneyCredited" -> @ + e.amount
                                   [] e.event_type = "MoneyDebited" -> @ - e.amount
                                   [] e.event_type = "AccountCreated" -> 0
                                   [] OTHER -> @,
                     !.status = CASE e.event_type = "AccountFrozen" -> "Frozen"
                                  [] e.event_type \in {"AccountUnfrozen", "AccountCreated"}
                                       -> "Active"
                                  [] OTHER -> @,
                     !.id = IF e.event_type = "AccountCreated" THEN e.aggregate_id ELSE @,
                     !.user_id = IF e.event_type = "AccountCreated" THEN e.user_id ELSE @,
                     !.account_type = IF e.event_type = "AccountCreated"
                                      THEN e.account_type ELSE @]

\* Account::apply
apply(acc, e) ==
    LET st ==
        CASE e.event_type = "AccountCreated" ->
                [acc EXCEPT !.id = e.aggregate_id, !.user_id = e.user_id,
                            !.account_type = e.account_type,
                            !.balance = 0, !.status = "Active",
                            !.created_at = "Some"]
          [] e.event_type = "MoneyCredited" ->
                IF Amount_new_ok(e.amount) /\ Balance_new_ok(acc.balance + e.amount)
                THEN [acc EXCEPT !.balance = acc.balance + e.amount]
                ELSE acc
          [] e.event_type = "MoneyDebited" ->
                IF Amount_new_ok(e.amount) /\ Balance_new_ok(acc.balance - e.amount)
                THEN [acc EXCEPT !.balance = acc.balance - e.amount]
                ELSE acc
          [] e.event_type = "AccountFrozen" -> [acc EXCEPT !.status = "Frozen"]
          [] e.event_type = "AccountUnfrozen" -> [acc EXCEPT !.status = "Active"]
          [] OTHER -> acc
    IN [st EXCEPT !.version = acc.version + 1]

\* Aggregate::should_snapshot
should_snapshot(acc) == acc.version > 0 /\ acc.version % SNAPSHOT_INTERVAL = 0

\* Account::from_db_state
from_db_state(id, user_id, account_type, balance, version) ==
    [id |-> id, user_id |-> user_id, account_type |-> account_type,
     balance |-> IF balance >= 0
                 THEN (IF Balance_new_ok(balance) THEN balance ELSE 0)
                 ELSE balance,
     status |-> "Active", version |-> version, created_at |-> "None"]

debit_checks_balance_first(acc, amount) ==
    IF ~is_sufficient_for(acc.balance, amount) THEN "InsufficientBalance"
    ELSE IF acc.status = "Frozen" THEN "AccountFrozen"
    ELSE "Ok"

debit_refuses_exact_balance(acc, amount) ==
    IF acc.status = "Frozen" THEN "AccountFrozen"
    ELSE IF acc.balance <= amount THEN "InsufficientBalance"
    ELSE "Ok"

\* Account::debit: "AccountFrozen", "InsufficientBalance" or "Ok"
debit(acc, amount) ==
    IF acc.status = "Frozen" THEN "AccountFrozen"
    ELSE IF ~is_sufficient_for(acc.balance, amount) THEN "InsufficientBalance"
    ELSE "Ok"

\* Account::credit: "AccountFrozen" or "Ok"
credit(acc, amount) ==
    IF acc.status = "Frozen" THEN "AccountFrozen" ELSE "Ok"

\* Account::freeze: "InvalidRequest" or "Ok"
freeze(acc) == IF acc.status = "Frozen" THEN "InvalidRequest" ELSE "Ok"

\* Account::unfreeze: "InvalidRequest" or "Ok"
unfreeze(acc) == IF acc.status # "Frozen" THEN "InvalidRequest" ELSE "Ok"

(* ----------------------------- store ----------------------------------- *)

\* a row of idempotency_keys: processing_status, event_id (0 for NULL),
\* processing_started_at, request_hash, and xmin, the run whose transaction
\* wrote this version of the row (0 for a statement run on the pool)
KeyRow(status, event_id, started_at, request_hash, xmin) ==
    [status |-> status, event_id |-> event_id, processing_started_at |-> started_at,
     request_hash |-> request_hash, xmin |-> xmin]

\* no row for the key
NoRow == KeyRow("none", 0, 0, "", 0)

\* an Option<String>: None is {} and Some(x) is {x}; the UserChanges of an
\* event that is no UserUpdated
NoChanges == [display_name |-> {}, email |-> {}]

\* a row of events; event_data is spread over amount, transfer_id, user_id,
\* account_type and changes
Event(id, agg, version, type, amount, tid, key, user_id, account_type) ==
    [id |-> id, aggregate_id |-> agg, version |-> version, event_type |-> type,
     amount |-> amount, transfer_id |-> tid, idempotency_key |-> key,
     user_id |-> user_id, account_type |-> account_type, changes |-> NoChanges]

\* AggregateOperation
Op(agg, expected, type, amount, user_id, account_type) ==
    [aggregate_id |-> agg, expected_version |-> expected, event_type |-> type,
     amount |-> amount, user_id |-> user_id, account_type |-> account_type,
     changes |-> NoChanges]

\* a row of users; the id stands for the username and the email a user is
\* created with
UsersRow(id, email, display_name, is_active, is_system) ==
    [id |-> id, email |-> email, display_name |-> display_name,
     is_active |-> is_active, is_system |-> is_system]

events_unique_violation_never(committed, agg, version) == FALSE

\* UNIQUE (aggregate_id, version) on events
events_unique_violation(committed, agg, version) ==
    \E e \in committed : e.aggregate_id = agg /\ e.version = version

\* PRIMARY KEY (key) on idempotency_keys
idempotency_keys_pk_violation(rows, key) == rows[key].status # "none"

MaxOf(S) == CHOOSE x \in S : \A y \in S : y <= x

\* EventStore::get_current_version: SELECT MAX(version), 0 when there is none
get_current_version(visible, agg) ==
    LET vs == {e.version : e \in {x \in visible : x.aggregate_id = agg}}
    IN IF vs = {} THEN 0 ELSE MaxOf(vs)

MinOf(S) == CHOOSE x \in S : \A y \in S : x <= y

\* fold of Account::apply over the events of `es` with versions lo..hi, in
\* ascending version order (ORDER BY version ASC).  The range is halved and the
\* lower half is folded first (apply never lowers the version, so the test on
\* it always passes), which keeps the nesting of a hundred events at seven.
RECURSIVE replay_versions(_, _, _, _)
replay_versions(acc, es, lo, hi) ==
    IF lo > hi THEN acc
    ELSE IF lo = hi
    THEN LET at == {e \in es : e.version = lo}
         IN IF at = {} THEN acc
            ELSE LET e == CHOOSE x \in at : TRUE
                 IN IF at = {e} THEN apply(acc, e)
                    ELSE replay_versions(apply(acc, e), at \ {e}, lo, hi)
    ELSE LET mid == (lo + hi) \div 2
             lower == replay_versions(acc, es, lo, mid)
         IN IF lower.version >= acc.version
            THEN replay_versions(lower, es, mid + 1, hi)
            ELSE acc

\* fold of Account::apply over a set of events in ascending version order
replay(acc, es) ==
    IF es = {} THEN acc
    ELSE replay_versions(acc, es, MinOf({e.version : e \in es}),
                         MaxOf({e.version : e \in es}))

\* EventStore::load_snapshot: (from_version, initial_state)
load_snapshot(snaps, agg) ==
    IF agg \in DOMAIN snaps
    THEN [from_version |-> snaps[agg].version, found |-> TRUE, state |-> snaps[agg].state]
    ELSE [from_version |-> 0, found |-> FALSE, state |-> DefaultAccount]

\* EventStore::load_aggregate: [found, state]
load_aggregate(committed, snaps, agg) ==
    LET snap == load_snapshot(snaps, agg)
        es == {e \in committed : e.aggregate_id = agg /\ e.version > snap.from_version}
    IN IF ~snap.found /\ es = {}
       THEN [found |-> FALSE, state |-> DefaultAccount]
       ELSE [found |-> TRUE, state |-> replay(snap.state, es)]

\* EventStore::save_snapshot_if_needed: the event_snapshots table afterwards
save_snapshot_if_needed(snaps, acc) ==
    IF ~should_snapshot(acc) THEN snaps
    ELSE [a \in DOMAIN snaps \cup {acc.id} |->
            IF a = acc.id THEN [version |-> acc.version, state |-> acc] ELSE snaps[a]]

\* MintHandler / BurnHandler::load_system_account
load_system_account(committed, accts, balances, account_id) ==
    LET rows == {r \in accts : r.id = account_id}
    IN IF rows = {} THEN [found |-> FALSE, state |-> DefaultAccount]
       ELSE LET r == CHOOSE x \in rows : TRUE
                bal == IF account_id \in DOMAIN balances
                       THEN balances[account_id].balance ELSE 0
            IN [found |-> TRUE,
                state |-> from_db_state(r.id, r.user_id, r.account_type, bal,
                                        get_current_version(committed, account_id))]

\* MintHandler / BurnHandler::load_account_with_fallback
load_account_with_fallback(committed, snaps, accts, balances, account_id) ==
    LET l == load_aggregate(committed, snaps, account_id)
    IN IF l.found THEN l
       ELSE load_system_account(committed, accts, balances, account_id)

\* get_wallet_account_id: SELECT id FROM accounts WHERE user_id = $1 AND
\* account_type = 'user_wallet'; 0 when there is no row
get_wallet_account_id(accts, user_id) ==
    LET rows == {r \in accts : r.user_id = user_id /\ r.account_type = "user_wallet"}
    IN IF rows = {} THEN 0 ELSE (CHOOSE r \in rows : TRUE).id

\* get_system_account_id: SELECT id FROM accounts WHERE user_id = $1
get_system_account_id(accts, user_id) ==
    LET rows == {r \in accts : r.user_id = user_id}
    IN IF rows = {} THEN 0 ELSE (CHOOSE r \in rows : TRUE).id

(* --------------------------- projection -------------------------------- *)

BalanceRow(balance, event_id, event_version) ==
    [balance |-> balance, last_event_id |-> event_id,
     last_event_version |-> event_version]

update_balance_always_adds(balances, account_id, amount, is_credit, event_id, event_version) ==
    LET old == IF account_id \in DOMAIN balances THEN balances[account_id].balance ELSE 0
    IN [a \in DOMAIN balances \cup {account_id} |->
          IF a = account_id
          THEN [balance |-> old + amount, last_event_id |-> event_id,
                last_event_version |-> event_version]
          ELSE balances[a]]

\* ProjectionService::update_balance: UPDATE, and INSERT when no row was updated
update_balance(balances, account_id, amount, is_credit, event_id, event_version) ==
    LET balance_change == IF is_credit THEN amount ELSE 0 - amount
        old == IF account_id \in DOMAIN balances THEN balances[account_id].balance ELSE 0
    IN [a \in DOMAIN balances \cup {account_id} |->
          IF a = account_id
          THEN BalanceRow(old + balance_change, event_id, event_version)
          ELSE balances[a]]

\* ProjectionService::update_mint_source_balance: UPDATE only
update_mint_source_balance(balances, account_id, amount, event_id, event_version) ==
    [a \in DOMAIN balances |->
        IF a = account_id
        THEN BalanceRow(balances[a].balance - amount, event_id, event_version)
        ELSE balances[a]]

create_ledger_entries_debit_only(transfer_id, event_id, from_account_id, to_account_id, amount) ==
    { [journal_id |-> transfer_id, transfer_event_id |-> event_id,
       account_id |-> to_account_id, amount |-> amount, entry_type |-> "debit"] }

\* ProjectionService::create_ledger_entries: the two rows inserted
create_ledger_entries(transfer_id, event_id, from_account_id, to_account_id, amount) ==
    { [journal_id |-> transfer_id, transfer_event_id |-> event_id,
       account_id |-> to_account_id, amount |-> amount, entry_type |-> "debit"],
      [journal_id |-> transfer_id, transfer_event_id |-> event_id,
       account_id |-> from_account_id, amount |-> amount, entry_type |-> "credit"] }

\* ProjectionService::apply_transfer: one transaction over both tables
apply_transfer(balances, ledger, transfer_id, event_id, from_id, to_id, amount, event_version) ==
    [balances |->
        update_balance(
            update_balance(balances, from_id, amount, FALSE, event_id, event_version),
            to_id, amount, TRUE, event_id, event_version),
     ledger |-> ledger \cup create_ledger_entries(transfer_id, event_id, from_id, to_id, amount)]

\* ProjectionService::apply_mint: one transaction over both tables
apply_mint(balances, ledger, transfer_id, event_id, mint_id, recipient_id, amount, event_version) ==
    [balances |->
        update_balance(
            update_mint_source_balance(balances, mint_id, amount, event_id, event_version),
            recipient_id, amount, TRUE, event_id, event_version),
     ledger |-> ledger \cup create_ledger_entries(transfer_id, event_id, mint_id, recipient_id, amount)]

(* -------------------------- the User aggregate ------------------------- *)

\* CreateUserCommand.username (and .email) of the command that names user_id
Username(user_id) == IF user_id = 3 THEN 2 ELSE user_id

\* the UserChanges an update carries; emails are numbered like usernames
ChangeInputs == [display_name : {{}, {"d1"}, {"d2"}}, email : {{}, {11}}]

\* User::default; created_at and updated_at are not modelled
DefaultUser ==
    [id |-> 0, username |-> 0, email |-> 0, display_name |-> {},
     status |-> "Active", version |-> 0]

\* a UserEvent; UserCreated carries the username and email of its command and
\* no display name
UserEvent(type, user_id, changes) ==
    [event_type |-> type, aggregate_id |-> user_id, user_id |-> user_id,
     changes |-> changes]

\* User::apply
User_apply(user, e) ==
    LET st ==
        CASE e.event_type = "UserCreated" ->
                [user EXCEPT !.id = e.user_id, !.username = Username(e.user_id),
                             !.email = Username(e.user_id), !.display_name = {},
                             !.status = "Active"]
          [] e.event_type = "UserUpdated" ->
                [user EXCEPT !.display_name = IF e.changes.display_name # {}
                                              THEN e.changes.display_name ELSE @,
                             !.email = IF e.changes.email # {}
                                       THEN CHOOSE x \in e.changes.email : TRUE ELSE @]
          [] e.event_type = "UserDeactivated" -> [user EXCEPT !.status = "Deactivated"]
          [] e.event_type = "UserReactivated" -> [user EXCEPT !.status = "Active"]
          [] OTHER -> user
    IN [st EXCEPT !.version = user.version + 1]

User_update_checks_diff_first(user, changes) ==
    IF changes.display_name = {} /\ changes.email = {} THEN "InvalidRequest"
    ELSE IF user.status = "Deactivated" THEN "UserNotFound"
    ELSE "Ok"

\* User::update: "UserNotFound", "InvalidRequest" or "Ok"
User_update(user, changes) ==
    IF user.status = "Deactivated" THEN "UserNotFound"
    ELSE IF changes.display_name = {} /\ changes.email = {} THEN "InvalidRequest"
    ELSE "Ok"

\* User::deactivate: "InvalidRequest" or "Ok"
User_deactivate(user) == IF user.status = "Deactivated" THEN "InvalidRequest" ELSE "Ok"

\* User::reactivate: "InvalidRequest" or "Ok"
User_reactivate(user) == IF user.status # "Deactivated" THEN "InvalidRequest" ELSE "Ok"

\* the commands of the aggregate, with the event each yields on Ok
UserCommands ==
    {[name |-> "update", event_type |-> "UserUpdated", changes |-> c] : c \in ChangeInputs}
    \cup {[name |-> "deactivate", event_type |-> "UserDeactivated", changes |-> NoChanges],
          [name |-> "reactivate", event_type |-> "UserReactivated", changes |-> NoChanges]}

\* the result of a command on a user
UserCommandResult(user, cmd) ==
    CASE cmd.name = "update" -> User_update(user, cmd.changes)
      [] cmd.name = "deactivate" -> User_deactivate(user)
      [] OTHER -> User_reactivate(user)

(* ----------------------------- tasks ----------------------------------- *)

IdleTask ==
    [pc |-> "idle", kind |-> "none", seq |-> 0, user |-> NoUser,
     amount |-> 0, key |-> NoKey, from_id |-> 0, to_id |-> 0,
     from_acc |-> DefaultAccount, to_acc |-> DefaultAccount, user_state |-> DefaultUser,
     ops |-> <<>>, attempt |-> 0, idx |-> 0, pending |-> <<>>, key_pending |-> FALSE,
     event_ids |-> <<>>, result |-> "none", store_error |-> "none", rolled_back |-> 0]

\* the handler has returned `result`: the command, the ids it got from
\* append_atomic, the store's error and the number of inserted rows its last
\* transaction dropped
Returned(t, result) ==
    [IdleTask EXCEPT !.pc = "done", !.kind = t.kind, !.seq = t.seq, !.key = t.key,
                     !.from_id = t.from_id, !.to_id = t.to_id, !.amount = t.amount,
                     !.event_ids = t.event_ids, !.result = result,
                     !.store_error = t.store_error, !.rolled_back = Len(t.pending)]

\* the run number of the next handler run: stands for what Uuid::new_v4() yields
NextSeq == ncmd.money + ncmd.user + ncmd.freeze + ncmd.profile + 1
NewEventId(seq, idx) == EventIdBase * seq + idx
RunOf(event_id) == event_id \div EventIdBase

SeedEvent ==
    Event(SeedEventId, MintAccountId, 1, "AccountCreated", 0, 0, NoKey,
          SYSTEM_MINT_USER_ID, "mint_source")

SeedAccounts ==
    { [id |-> MintAccountId, user_id |-> SYSTEM_MINT_USER_ID, account_type |-> "mint_source"],
      [id |-> BurnAccountId, user_id |-> SYSTEM_BURN_USER_ID, account_type |-> "burn_sink"] }

\* the users rows of the seed
SeedUsers ==
    { UsersRow(SYSTEM_MINT_USER_ID, SYSTEM_MINT_USER_ID, {}, TRUE, TRUE),
      UsersRow(SYSTEM_BURN_USER_ID, SYSTEM_BURN_USER_ID, {}, TRUE, TRUE) }

\* the account_balances rows the seed may have given the system accounts
SeedBalances ==
    { [a \in {MintAccountId, BurnAccountId} |-> BalanceRow(0, 0, 0)],
      [a \in {} |-> BalanceRow(0, 0, 0)] }

\* run 1: CreateUserHandler::execute for the first user
FirstUser == 1
FirstWallet == AccountIdBase + 1
FirstUserEvents ==
    { Event(NewEventId(1, 1), FirstUser, 1, "UserCreated", 0, 0, NoKey, FirstUser, ""),
      Event(NewEventId(1, 2), FirstWallet, 1, "AccountCreated", 0, 0, NoKey,
            FirstUser, "user_wallet") }
FirstUserRow == UsersRow(FirstUser, FirstUser, {}, TRUE, FALSE)
FirstUserAccount ==
    [id |-> FirstWallet, user_id |-> FirstUser, account_type |-> "user_wallet"]
FirstUserBalances(balances) ==
    [a \in DOMAIN balances \cup {FirstWallet} |->
        IF a = FirstWallet THEN BalanceRow(0, NewEventId(1, 2), 1) ELSE balances[a]]

\* run 2: MintHandler::execute of MaxAmount to the first user, without a key
FirstMintEvents ==
    { Event(NewEventId(2, 1), MintAccountId, 2, "MoneyDebited", MaxAmount, 2, NoKey, 0, ""),
      Event(NewEventId(2, 2), FirstWallet, 2, "MoneyCredited", MaxAmount, 2, NoKey, 0, "") }
FirstMint(balances) ==
    apply_mint(balances, {}, 2, NewEventId(2, 1), MintAccountId, FirstWallet, MaxAmount, 2)

\* the store after the seed and the first two handler runs: the first user
\* exists and holds MaxAmount
Init ==
    /\ events = {SeedEvent} \cup FirstUserEvents \cup FirstMintEvents
    /\ idempotency_keys = [k \in Keys |-> NoRow]
    /\ users = SeedUsers \cup {FirstUserRow}
    /\ accounts = SeedAccounts \cup {FirstUserAccount}
    /\ \E seed \in SeedBalances :
          /\ account_balances = FirstMint(FirstUserBalances(seed)).balances
          /\ ledger_entries = FirstMint(FirstUserBalances(seed)).ledger
    /\ event_snapshots = [a \in {} |-> 0]
    /\ task = [p \in Procs |-> IdleTask]
    /\ ncmd = [money |-> 1, user |-> 1, freeze |-> 0, profile |-> 0]
    /\ now = 0
    /\ applied = <<>>
    /\ aggregate = DefaultAccount
    /\ audit_logs = <<>>
    /\ verification = NoResult
    /\ today = FirstDay
    /\ partitions = {}

(* ------------------- handlers: validation and loads -------------------- *)

\* the response step touches nothing but the task's own record, so it commutes
\* with every step of the other tasks: it is taken before anything else
Responding == \E q \in Procs : task[q].pc = "done"

\* tasks are interchangeable: a command goes to the first free one
CanStart(p) ==
    /\ ~Responding
    /\ task[p].pc = "idle"
    /\ \A q \in Procs : q < p => task[q].pc # "idle"

DomainCheck_credit_first(kind, from_acc, to_acc, amount) ==
    LET c == credit(to_acc, amount)
    IN IF c # "Ok" THEN c
       ELSE IF kind = "mint" THEN "Ok" ELSE debit(from_acc, amount)

\* the domain checks of the handler: debit on the source (the mint handler
\* builds the MoneyDebited of SYSTEM_MINT directly), credit on the destination
DomainCheck(kind, from_acc, to_acc, amount) ==
    LET d == IF kind = "mint" THEN "Ok" ELSE debit(from_acc, amount)
    IN IF d # "Ok" THEN d ELSE credit(to_acc, amount)

\* a command refused before append_atomic: nothing but the error goes back
Reject(p, kind, result) ==
    /\ task' = [task EXCEPT ![p] =
                 [IdleTask EXCEPT !.pc = "done", !.kind = kind, !.result = result]]
    /\ UNCHANGED ncmd

\* the handler from the loads to the call of append_atomic: the two loads, the
\* aggregate commands and the assembly of the operations.  A run that gets
\* this far takes the next run number.  The resolution of the account ids and
\* the loads only read; taken together at the moment of the last read they yield
\* what the handler sees unless a commit falls between them, and then the stale
\* version makes the append fail as it does when the commit follows the reads.
Begin(p, t, f, l) ==
    LET check == DomainCheck(t.kind, f.state, l.state, t.amount)
        ops == << Op(t.from_id, f.state.version, "MoneyDebited", t.amount, 0, ""),
                  Op(t.to_id, l.state.version, "MoneyCredited", t.amount, 0, "") >>
    IN IF ~f.found
       THEN Reject(p, t.kind, IF t.kind = "mint" THEN "Internal" ELSE "AccountNotFound")
       ELSE IF ~l.found
       THEN Reject(p, t.kind, IF t.kind = "burn" THEN "Internal" ELSE "AccountNotFound")
       ELSE IF check # "Ok" THEN Reject(p, t.kind, check)
       ELSE /\ ncmd.money < MaxMoneyCmds
            /\ task' = [task EXCEPT ![p] =
                         [t EXCEPT !.seq = NextSeq, !.from_acc = f.state,
                                   !.to_acc = l.state, !.ops = ops, !.attempt = 0,
                                   !.pc = "tx_begin"]]
            /\ ncmd' = [ncmd EXCEPT !.money = @ + 1]

authorization_check_accepts_anyone(request_user_id, from_user_id) ==
    IF request_user_id = NoUser THEN "MissingHeader" ELSE "Ok"

\* transfer_handler.rs lines 47-53: context.request_user_id against the sender
authorization_check(request_user_id, from_user_id) ==
    IF request_user_id = NoUser THEN "MissingHeader"
    ELSE IF request_user_id # from_user_id THEN "UnauthorizedTransfer"
    ELSE "Ok"

\* TransferHandler::execute up to append_atomic: authorization, same-account
\* check, amount parsing, get_wallet_account_id and load_aggregate for both users
StartTransfer(p, from_user, to_user, amount, key, request_user_id) ==
    /\ CanStart(p)
    /\ LET from_id == get_wallet_account_id(accounts, from_user)
           to_id == get_wallet_account_id(accounts, to_user)
           t == [IdleTask EXCEPT !.kind = "transfer", !.user = from_user,
                                 !.amount = amount, !.key = key,
                                 !.from_id = from_id, !.to_id = to_id]
           auth == authorization_check(request_user_id, from_user)
       IN IF auth # "Ok" THEN Reject(p, "transfer", auth)
          ELSE IF from_user = to_user THEN Reject(p, "transfer", "InvalidRequest")
          ELSE IF ~Amount_new_ok(amount) THEN Reject(p, "transfer", "InvalidRequest")
          ELSE IF from_id = 0 \/ to_id = 0 THEN Reject(p, "transfer", "UserNotFound")
          ELSE Begin(p, t, load_aggregate(events, event_snapshots, from_id),
                     load_aggregate(events, event_snapshots, to_id))
    /\ UNCHANGED <<events, idempotency_keys, users, accounts, account_balances,
                   ledger_entries, event_snapshots, outside>>

\* MintHandler::execute up to append_atomic
StartMint(p, recipient_user, amount, key) ==
    /\ CanStart(p)
    /\ LET mint_id == get_system_account_id(accounts, SYSTEM_MINT_USER_ID)
           to_id == get_wallet_account_id(accounts, recipient_user)
           t == [IdleTask EXCEPT !.kind = "mint", !.user = recipient_user,
                                 !.amount = amount, !.key = key,
                                 !.from_id = mint_id, !.to_id = to_id]
       IN IF ~Amount_new_ok(amount) THEN Reject(p, "mint", "InvalidRequest")
          ELSE IF mint_id = 0 THEN Reject(p, "mint", "Internal")
          ELSE IF to_id = 0 THEN Reject(p, "mint", "UserNotFound")
          ELSE Begin(p, t,
                     load_system_account(events, accounts, account_balances, mint_id),
                     load_account_with_fallback(events, event_snapshots, accounts,
                                                account_balances, to_id))
    /\ UNCHANGED <<events, idempotency_keys, users, accounts, account_balances,
                   ledger_entries, event_snapshots, outside>>

\* BurnHandler::execute up to append_atomic
StartBurn(p, from_user, amount, key) ==
    /\ CanStart(p)
    /\ LET burn_id == get_system_account_id(accounts, SYSTEM_BURN_USER_ID)
           from_id == get_wallet_account_id(accounts, from_user)
           t == [IdleTask EXCEPT !.kind = "burn", !.user = from_user,
                                 !.amount = amount, !.key = key,
                                 !.from_id = from_id, !.to_id = burn_id]
       IN IF ~Amount_new_ok(amount) THEN Reject(p, "burn", "InvalidRequest")
          ELSE IF burn_id = 0 THEN Reject(p, "burn", "Internal")
          ELSE IF from_id = 0 THEN Reject(p, "burn", "UserNotFound")
          ELSE Begin(p, t,
                     load_account_with_fallback(events, event_snapshots, accounts,
                                                account_balances, from_id),
                     load_system_account(events, accounts, account_balances, burn_id))
    /\ UNCHANGED <<events, idempotency_keys, users, accounts, account_balances,
                   ledger_entries, event_snapshots, outside>>

(* --------------------- EventStore::append_atomic ----------------------- *)

TxPcs == {"tx_begin", "tx_key_insert", "tx_read", "tx_insert", "tx_commit"}

\* line 142: the optimistic version check
version_matches(current_version, expected_version) == current_version = expected_version

new_version_skips(op) == op.expected_version + 2

new_version_stays(op) == op.expected_version

\* line 151: let new_version = op.expected_version + 1
new_version(op) == op.expected_version + 1

\* the events that carry a transfer_id
MoneyEvents == {"MoneyDebited", "MoneyCredited"}

\* the event row an operation inserts; the key goes on the first row only
EventRow(t, idx) ==
    LET op == t.ops[idx]
    IN [Event(NewEventId(t.seq, idx), op.aggregate_id, new_version(op), op.event_type,
              op.amount, IF op.event_type \in MoneyEvents THEN t.seq ELSE 0,
              IF idx = 1 THEN t.key ELSE NoKey, op.user_id, op.account_type)
        EXCEPT !.changes = op.changes]

insert_event_autocommit(row) == [committed |-> {row}, in_tx |-> <<>>]

\* the INSERT INTO events runs on the transaction: the row is written at commit
insert_event(row) == [committed |-> {}, in_tx |-> <<row>>]

\* the INSERT INTO idempotency_keys of check_idempotency_key runs on the
\* transaction: the row is written at commit
insert_idempotency_key(t) == [committed |-> FALSE, in_tx |-> TRUE]

PendingSet(t) == {t.pending[i] : i \in 1..Len(t.pending)}

\* the tasks whose open transaction the next statement of p waits for
WaitsOn(p) ==
    LET t == task[p]
    IN CASE t.pc = "tx_key_insert" ->
              {q \in Procs \ {p} : task[q].key_pending /\ task[q].key = t.key}
         [] t.pc = "tx_insert" ->
              {q \in Procs \ {p} :
                 events_unique_violation(PendingSet(task[q]),
                                         t.ops[t.idx].aggregate_id,
                                         new_version(t.ops[t.idx]))}
         [] OTHER -> {}

Deadlocked(p) == \E q \in WaitsOn(p) : p \in WaitsOn(q)

\* how each handler maps an error of append_atomic
MapStoreError(kind, e) ==
    IF kind = "transfer"
    THEN (CASE e = "ConcurrencyConflict" -> "VersionConflict"
            [] e = "IdempotencyKeyExists" -> "IdempotencyConflict"
            [] OTHER -> "Internal")
    ELSE "Internal"

AppendFailed_retries_any_error(t, e) ==
    IF t.attempt < MAX_RETRIES - 1
    THEN [t EXCEPT !.attempt = @ + 1, !.idx = 0, !.pending = <<>>,
                   !.event_ids = <<>>, !.key_pending = FALSE, !.pc = "tx_begin"]
    ELSE Returned([t EXCEPT !.store_error = e, !.event_ids = <<>>],
                  MapStoreError(t.kind, e))

\* try_append_atomic returned Err(e): the transaction is dropped (rolled back);
\* append_atomic retries a ConcurrencyConflict while attempt < MAX_RETRIES - 1
AppendFailed(t, e) ==
    IF e = "ConcurrencyConflict" /\ t.attempt < MAX_RETRIES - 1
    THEN [t EXCEPT !.attempt = @ + 1, !.idx = 0, !.pending = <<>>,
                   !.event_ids = <<>>, !.key_pending = FALSE, !.pc = "tx_begin"]
    ELSE Returned([t EXCEPT !.store_error = e, !.event_ids = <<>>],
                  MapStoreError(t.kind, e))

is_cached_result_never(event_ids, key) == FALSE

\* mint_handler.rs line 117: one id for two operations means a cached result
is_cached_result(event_ids, key) == Len(event_ids) = 1 /\ key # NoKey

\* the mint_id of the MintResult: the cached event id on the early return
\* (mint_handler.rs line 122), else the mint_id drawn for this run (line 156)
MintResult_mint_id(t) ==
    IF is_cached_result(t.event_ids, t.key) THEN t.event_ids[1] ELSE t.seq

\* append_atomic returned Ok(ids): where the handler goes on
AppendOk(t, ids) ==
    LET u == [t EXCEPT !.event_ids = ids, !.pending = <<>>, !.key_pending = FALSE,
                       !.idx = 0]
    IN IF t.kind = "mint" /\ is_cached_result(ids, t.key) THEN Returned(u, "Ok")
       ELSE IF t.kind \in {"freeze", "unfreeze"} THEN Returned(u, "Ok")
       ELSE IF t.kind = "create_user" THEN [u EXCEPT !.pc = "cu_rows"]
       ELSE IF t.kind \in {"update_user", "deactivate_user"}
       THEN [u EXCEPT !.pc = "user_sync"]
       ELSE [u EXCEPT !.pc = "project"]

check_idempotency_key_ignores_completed(row) ==
    CASE row.status = "processing" -> [ret |-> "Err", event_id |-> 0, insert |-> FALSE]
      [] row.status = "none" -> [ret |-> "None", event_id |-> 0, insert |-> TRUE]
      [] OTHER -> [ret |-> "None", event_id |-> 0, insert |-> FALSE]

\* EventStore::check_idempotency_key on the selected row: Ok(Some(event_id)),
\* Err(IdempotencyKeyExists), or Ok(None) with or without the INSERT of a row
check_idempotency_key(row) ==
    CASE row.status = "completed" ->
            IF row.event_id # 0
            THEN [ret |-> "Some", event_id |-> row.event_id, insert |-> FALSE]
            ELSE [ret |-> "None", event_id |-> 0, insert |-> FALSE]
      [] row.status = "processing" -> [ret |-> "Err", event_id |-> 0, insert |-> FALSE]
      [] row.status = "none" -> [ret |-> "None", event_id |-> 0, insert |-> TRUE]
      [] OTHER -> [ret |-> "None", event_id |-> 0, insert |-> FALSE]

\* pool.begin() and the SELECT of check_idempotency_key
TxBegin(p) ==
    /\ ~Responding
    /\ task[p].pc = "tx_begin"
    /\ LET t == task[p]
           row == IF t.key = NoKey THEN NoRow ELSE idempotency_keys[t.key]
           r == check_idempotency_key(row)
           go == [t EXCEPT !.pc = "tx_read", !.idx = 1]
           next ==
             IF t.key = NoKey THEN go
             ELSE CASE r.ret = "Some" -> AppendOk(t, <<r.event_id>>)
                    [] r.ret = "Err" -> AppendFailed(t, "IdempotencyKeyExists")
                    [] r.insert -> [t EXCEPT !.pc = "tx_key_insert"]
                    [] OTHER -> go
       IN task' = [task EXCEPT ![p] = next]
    /\ UNCHANGED <<events, idempotency_keys, users, accounts, account_balances,
                   ledger_entries, event_snapshots, ncmd, outside>>

\* the INSERT of check_idempotency_key (no row was selected)
TxKeyInsert(p) ==
    /\ ~Responding
    /\ task[p].pc = "tx_key_insert"
    /\ LET t == task[p]
           w == insert_idempotency_key(t)
       IN IF idempotency_keys_pk_violation(idempotency_keys, t.key)
          THEN /\ task' = [task EXCEPT ![p] = AppendFailed(t, "Database")]
               /\ UNCHANGED idempotency_keys
          ELSE /\ WaitsOn(p) = {}
               /\ task' = [task EXCEPT ![p] =
                            [t EXCEPT !.key_pending = w.in_tx, !.pc = "tx_read", !.idx = 1]]
               /\ idempotency_keys' =
                    IF w.committed
                    THEN [idempotency_keys EXCEPT ![t.key] =
                            KeyRow("processing", 0, now, "", t.seq)]
                    ELSE idempotency_keys
    /\ UNCHANGED <<events, users, accounts, account_balances, ledger_entries,
                   event_snapshots, ncmd, outside>>

\* get_current_version and the version check of the current operation
TxRead(p) ==
    /\ ~Responding
    /\ task[p].pc = "tx_read"
    /\ LET t == task[p]
           op == t.ops[t.idx]
           current_version ==
               get_current_version(events \cup PendingSet(t), op.aggregate_id)
       IN task' = [task EXCEPT ![p] =
                    IF version_matches(current_version, op.expected_version)
                    THEN [t EXCEPT !.pc = "tx_insert"]
                    ELSE AppendFailed(t, "ConcurrencyConflict")]
    /\ UNCHANGED <<events, idempotency_keys, users, accounts, account_balances,
                   ledger_entries, event_snapshots, ncmd, outside>>

\* INSERT INTO events of the current operation
TxInsert(p) ==
    /\ ~Responding
    /\ task[p].pc = "tx_insert"
    /\ LET t == task[p]
           row == EventRow(t, t.idx)
           w == insert_event(row)
       IN IF events_unique_violation(events, row.aggregate_id, row.version)
          THEN /\ task' = [task EXCEPT ![p] = AppendFailed(t, "Database")]
               /\ UNCHANGED events
          ELSE IF WaitsOn(p) # {}
          THEN \* the statement waits; the store breaks a deadlock with an error
               /\ Deadlocked(p)
               /\ task' = [task EXCEPT ![p] = AppendFailed(t, "Database")]
               /\ UNCHANGED events
          ELSE /\ task' = [task EXCEPT ![p] =
                            [t EXCEPT !.pending = @ \o w.in_tx,
                                      !.event_ids = Append(@, row.id),
                                      !.idx = IF @ = Len(t.ops) THEN @ ELSE @ + 1,
                                      !.pc = IF t.idx = Len(t.ops)
                                             THEN "tx_commit" ELSE "tx_read"]]
               /\ events' = events \cup w.committed
    /\ UNCHANGED <<idempotency_keys, users, accounts, account_balances, ledger_entries,
                   event_snapshots, ncmd, outside>>

\* complete_idempotency_key and tx.commit()
TxCommit(p) ==
    /\ ~Responding
    /\ task[p].pc = "tx_commit"
    /\ LET t == task[p]
       IN /\ events' = events \cup PendingSet(t)
          /\ idempotency_keys' =
                IF t.key = NoKey THEN idempotency_keys
                ELSE IF t.key_pending \/ idempotency_keys[t.key].status # "none"
                THEN [idempotency_keys EXCEPT ![t.key] =
                        KeyRow("completed", t.event_ids[1],
                               IF t.key_pending THEN now ELSE @.processing_started_at,
                               IF t.key_pending THEN "" ELSE @.request_hash,
                               t.seq)]
                ELSE idempotency_keys
          /\ task' = [task EXCEPT ![p] = AppendOk(t, t.event_ids)]
    /\ UNCHANGED <<users, accounts, account_balances, ledger_entries, event_snapshots,
                   ncmd, outside>>

(* ------------------ handlers: projection and return -------------------- *)

\* the events the handler built, as Account::apply sees them
BuiltEvent(t, idx) ==
    Event(0, t.ops[idx].aggregate_id, 0, t.ops[idx].event_type, t.ops[idx].amount,
          t.seq, NoKey, 0, "")

\* what the handler writes to account_balances and ledger_entries after the
\* append: apply_mint in the mint handler, apply_transfer in transfer and burn
Projection(t) ==
    IF t.kind = "mint"
    THEN apply_mint(account_balances, ledger_entries, t.seq, t.event_ids[1],
                    t.from_id, t.to_id, t.amount, t.from_acc.version + 1)
    ELSE apply_transfer(account_balances, ledger_entries, t.seq, t.event_ids[1],
                        t.from_id, t.to_id, t.amount, t.from_acc.version + 1)

\* how the two calls of save_snapshot_if_needed can end: a call that has a
\* snapshot to write runs an INSERT on the pool, which the database may fail
SnapshotOutcomes(from_account, to_account) ==
    {"Ok"} \cup (IF should_snapshot(from_account) THEN {"first_failed"} ELSE {})
           \cup (IF should_snapshot(to_account) THEN {"second_failed"} ELSE {})

\* the handler's result after the two calls: each is followed by
\* .map_err(|e| AppError::Internal(e.to_string()))?
handler_after_snapshots(outcome) == IF outcome = "Ok" THEN "Ok" ELSE "Internal"

\* the projection transaction, then apply on the loaded aggregates,
\* save_snapshot_if_needed for both, and the handler's result
Project(p) ==
    /\ ~Responding
    /\ task[p].pc = "project"
    /\ LET t == task[p]
           pr == Projection(t)
           from_account == apply(t.from_acc, BuiltEvent(t, 1))
           to_account == apply(t.to_acc, BuiltEvent(t, 2))
       IN /\ account_balances' = pr.balances
          /\ ledger_entries' = pr.ledger
          /\ \E outcome \in SnapshotOutcomes(from_account, to_account) :
                /\ event_snapshots' =
                      CASE outcome = "first_failed" -> event_snapshots
                        [] outcome = "second_failed" ->
                              save_snapshot_if_needed(event_snapshots, from_account)
                        [] OTHER ->
                              save_snapshot_if_needed(
                                  save_snapshot_if_needed(event_snapshots, from_account),
                                  to_account)
                /\ task' = [task EXCEPT ![p] =
                             Returned(t, handler_after_snapshots(outcome))]
    /\ UNCHANGED <<events, idempotency_keys, users, accounts, ncmd, outside>>

(* --------------------------- create user ------------------------------- *)

\* the user ids a create-user command can name: the last one comes with the
\* username and email of user 2
CreateUsers == Users \cup {3}

\* users(id PRIMARY KEY, username UNIQUE, email UNIQUE): a committed row has
\* the id, the username or the email of the command
users_row_exists(rows, user_id) ==
    \E x \in rows : x.id = user_id \/ Username(x.id) = Username(user_id)

\* CreateUserHandler::execute up to append_atomic: the SELECT for an existing
\* user, User::create, Account::create and the two operations.
StartCreateUser(p, user_id) ==
    /\ CanStart(p)
    /\ LET account_id == AccountIdBase + NextSeq
           t == [IdleTask EXCEPT !.kind = "create_user", !.user = user_id,
                                 !.to_id = account_id]
           ops == << Op(user_id, 0, "UserCreated", 0, user_id, ""),
                     Op(account_id, 0, "AccountCreated", 0, user_id, "user_wallet") >>
       IN IF users_row_exists(users, user_id)
          THEN Reject(p, "create_user", "InvalidRequest")
          ELSE /\ ncmd.user < MaxUserCmds
               /\ task' = [task EXCEPT ![p] =
                            [t EXCEPT !.seq = NextSeq, !.ops = ops, !.attempt = 0,
                                      !.pc = "tx_begin"]]
               /\ ncmd' = [ncmd EXCEPT !.user = @ + 1]
    /\ UNCHANGED <<events, idempotency_keys, users, accounts, account_balances,
                   ledger_entries, event_snapshots, outside>>

\* the INSERTs into users, accounts and account_balances on the handler's own
\* transaction, its commit, and the Ok result (no snapshot at version 1)
CreateUserRows(p) ==
    /\ ~Responding
    /\ task[p].pc = "cu_rows"
    /\ LET t == task[p]
       IN IF users_row_exists(users, t.user)
          THEN /\ task' = [task EXCEPT ![p] = Returned(t, "Database")]
               /\ UNCHANGED <<users, accounts, account_balances>>
          ELSE /\ users' = users \cup
                    {UsersRow(t.user, Username(t.user), {}, TRUE, FALSE)}
               /\ accounts' = accounts \cup
                    {[id |-> t.to_id, user_id |-> t.user, account_type |-> "user_wallet"]}
               /\ account_balances' =
                    IF t.to_id \in DOMAIN account_balances THEN account_balances
                    ELSE [a \in DOMAIN account_balances \cup {t.to_id} |->
                            IF a = t.to_id THEN BalanceRow(0, t.event_ids[2], 1)
                            ELSE account_balances[a]]
               /\ task' = [task EXCEPT ![p] = Returned(t, "Ok")]
    /\ UNCHANGED <<events, idempotency_keys, ledger_entries, event_snapshots, ncmd,
                   outside>>

\* the result goes back to the caller; the task is free for the next command
Respond(p) ==
    /\ task[p].pc = "done"
    /\ task' = [task EXCEPT ![p] = IdleTask]
    /\ UNCHANGED <<events, idempotency_keys, users, accounts, account_balances,
                   ledger_entries, event_snapshots, ncmd, outside>>

Next ==
    \E p \in Procs :
        \/ \E u \in Users : StartCreateUser(p, u)
        \/ \E u \in Users, a \in AmountInputs, k \in KeyInputs : StartMint(p, u, a, k)
        \/ \E u \in Users, v \in Users, a \in AmountInputs, k \in KeyInputs,
              r \in Users \cup {NoUser} : StartTransfer(p, u, v, a, k, r)
        \/ \E u \in Users, a \in AmountInputs, k \in KeyInputs : StartBurn(p, u, a, k)
        \/ TxBegin(p)
        \/ TxKeyInsert(p)
        \/ TxRead(p)
        \/ TxInsert(p)
        \/ TxCommit(p)
        \/ Project(p)
        \/ CreateUserRows(p)
        \/ Respond(p)

Spec == Init /\ [][Next]_vars

(* ------------- idempotency repository and stale-key job ---------------- *)

start_processing_checks_status_first(rows, key, request_hash, time) ==
    LET existing == rows[key]
    IN IF existing.status = "completed" THEN [result |-> "Some", rows |-> rows]
       ELSE IF existing.status # "none"
       THEN IF existing.request_hash # request_hash
            THEN [result |-> "HashMismatch", rows |-> rows]
            ELSE IF /\ existing.status = "processing"
                    /\ time - existing.processing_started_at < STALE_MINUTES
            THEN [result |-> "KeyInProgress", rows |-> rows]
            ELSE [result |-> "None",
                  rows |-> [rows EXCEPT ![key] =
                              KeyRow("processing", @.event_id, time, @.request_hash, 0)]]
       ELSE [result |-> "None",
             rows |-> [rows EXCEPT ![key] = KeyRow("processing", 0, time, request_hash, 0)]]

\* IdempotencyRepository::start_processing at clock reading `time`: the result
\* and the table afterwards.  Every writer of a row sets processing_started_at,
\* so the column is never NULL.
start_processing(rows, key, request_hash, time) ==
    LET existing == rows[key]
    IN IF existing.status # "none"
       THEN IF existing.request_hash # request_hash
            THEN [result |-> "HashMismatch", rows |-> rows]
            ELSE IF /\ existing.status = "processing"
                    /\ time - existing.processing_started_at < STALE_MINUTES
            THEN [result |-> "KeyInProgress", rows |-> rows]
            ELSE IF existing.status = "completed"
            THEN [result |-> "Some", rows |-> rows]
            ELSE [result |-> "None",
                  rows |-> [rows EXCEPT ![key] =
                              KeyRow("processing", @.event_id, time, @.request_hash, 0)]]
       ELSE [result |-> "None",
             rows |-> [rows EXCEPT ![key] = KeyRow("processing", 0, time, request_hash, 0)]]

\* IdempotencyRepository::mark_completed
mark_completed(rows, key, event_id) ==
    IF rows[key].status = "none" THEN [result |-> "NotFound", rows |-> rows]
    ELSE [result |-> "Ok",
          rows |-> [rows EXCEPT ![key] =
                      KeyRow("completed", event_id, @.processing_started_at,
                             @.request_hash, 0)]]

\* IdempotencyRepository::mark_failed
mark_failed(rows, key) ==
    IF rows[key].status = "none" THEN [result |-> "NotFound", rows |-> rows]
    ELSE [result |-> "Ok",
          rows |-> [rows EXCEPT ![key] =
                      KeyRow("failed", @.event_id, @.processing_started_at,
                             @.request_hash, 0)]]

reset_stale_idempotency_keys_never(rows, time) == rows

\* jobs::reset_stale_idempotency_keys at clock reading `time`
reset_stale_idempotency_keys(rows, time) ==
    [k \in DOMAIN rows |->
        IF /\ rows[k].status = "processing"
           /\ rows[k].processing_started_at < time - STALE_MINUTES
        THEN KeyRow("failed", rows[k].event_id, rows[k].processing_started_at,
                    rows[k].request_hash, 0)
        ELSE rows[k]]

\* a statement on the pool that writes the row of a key waits while an open
\* transaction holds an uncommitted row of that key
KeyRowFree(key) == \A q \in Procs : ~(task[q].key_pending /\ task[q].key = key)

\* a minute passes
Tick ==
    /\ now < MaxClock
    /\ now' = now + 1
    /\ UNCHANGED <<events, idempotency_keys, users, accounts, account_balances,
                   ledger_entries, event_snapshots, task, ncmd, applied, aggregate,
                   audit, calendar>>

\* a caller of the repository runs start_processing
RepoStartProcessing(key, request_hash) ==
    /\ KeyRowFree(key)
    /\ idempotency_keys' = start_processing(idempotency_keys, key, request_hash, now).rows
    /\ UNCHANGED <<events, users, accounts, account_balances, ledger_entries,
                   event_snapshots, task, ncmd, outside>>

\* a caller of the repository runs mark_completed with the id of an event
RepoMarkCompleted(key, event_id) ==
    /\ KeyRowFree(key)
    /\ idempotency_keys' = mark_completed(idempotency_keys, key, event_id).rows
    /\ UNCHANGED <<events, users, accounts, account_balances, ledger_entries,
                   event_snapshots, task, ncmd, outside>>

\* a caller of the repository runs mark_failed
RepoMarkFailed(key) ==
    /\ KeyRowFree(key)
    /\ idempotency_keys' = mark_failed(idempotency_keys, key).rows
    /\ UNCHANGED <<events, users, accounts, account_balances, ledger_entries,
                   event_snapshots, task, ncmd, outside>>

\* the maintenance loop runs reset_stale_idempotency_keys
ResetStaleKeys ==
    /\ \A k \in Keys : KeyRowFree(k)
    /\ idempotency_keys' = reset_stale_idempotency_keys(idempotency_keys, now)
    /\ UNCHANGED <<events, users, accounts, account_balances, ledger_entries,
                   event_snapshots, task, ncmd, outside>>

\* ids a caller of mark_completed holds: the first events of committed appends
AppendedIds == {e.id : e \in {x \in events : x.event_type = "MoneyDebited"}}

\* one handler task runs mints and burns of the first user under a key, one
\* after the other, while the repository is called, the job runs and time passes
KeyNext ==
    \/ Tick
    \/ \E k \in Keys, h \in Hashes : RepoStartProcessing(k, h)
    \/ \E k \in Keys, e \in AppendedIds : RepoMarkCompleted(k, e)
    \/ \E k \in Keys : RepoMarkFailed(k)
    \/ ResetStaleKeys
    \/ \E a \in 1..MaxAmount, k \in Keys : StartMint(1, FirstUser, a, k)
    \/ \E a \in 1..MaxAmount, k \in Keys : StartBurn(1, FirstUser, a, k)
    \/ TxBegin(1)
    \/ TxKeyInsert(1)
    \/ TxRead(1)
    \/ TxInsert(1)
    \/ TxCommit(1)
    \/ Project(1)
    \/ Respond(1)

KeySpec == Init /\ [][KeyNext]_vars

(* --------------------- the stale-key recovery job ---------------------- *)

\* a request calls start_processing for a new key and is never heard of again;
\* the maintenance loop runs the job; one handler task mints under keys
JobNext ==
    \/ Tick
    \/ \E k \in Keys, h \in Hashes :
          /\ idempotency_keys[k].status = "none"
          /\ RepoStartProcessing(k, h)
    \/ ResetStaleKeys
    \/ \E a \in 1..MaxAmount, k \in Keys : StartMint(1, FirstUser, a, k)
    \/ TxBegin(1)
    \/ TxKeyInsert(1)
    \/ TxRead(1)
    \/ TxInsert(1)
    \/ TxCommit(1)
    \/ Project(1)
    \/ Respond(1)

JobSpec == Init /\ [][JobNext]_vars

\* MaintenanceJobRunner::run: the idempotency interval ticks again and again,
\* and each tick runs reset_stale_idempotency_keys
JobFairSpec == JobSpec /\ WF_vars(ResetStaleKeys)

(* -------------------- update and deactivate user ---------------------- *)

\* fold of User::apply over a set of events in ascending version order
RECURSIVE replay_user(_, _)
replay_user(user, es) ==
    IF es = {} THEN user
    ELSE LET e == CHOOSE x \in es : \A y \in es : x.version <= y.version
         IN replay_user(User_apply(user, e), es \ {e})

\* EventStore::load_aggregate::<User>: [found, state]; no snapshot of a User
\* is ever saved
load_user(committed, user_id) ==
    LET es == {e \in committed : e.aggregate_id = user_id}
    IN [found |-> es # {}, state |-> replay_user(DefaultUser, es)]

\* SELECT is_system FROM users WHERE id = $1
is_system(rows, user_id) == \E r \in rows : r.id = user_id /\ r.is_system

\* the run of a user command that got as far as append_atomic
BeginUserCommand(p, kind, user, event_type, changes) ==
    /\ ncmd.profile < MaxProfileCmds
    /\ task' = [task EXCEPT ![p] =
                 [IdleTask EXCEPT !.kind = kind, !.user = user.id, !.seq = NextSeq,
                                  !.user_state = user, !.attempt = 0, !.pc = "tx_begin",
                                  !.ops = << [Op(user.id, user.version, event_type, 0,
                                                 user.id, "")
                                              EXCEPT !.changes = changes] >>]]
    /\ ncmd' = [ncmd EXCEPT !.profile = @ + 1]

\* UpdateUserHandler::execute up to append_atomic: load_aggregate, User::update
\* and the operation
StartUpdateUser(p, user_id, changes) ==
    /\ CanStart(p)
    /\ LET l == load_user(events, user_id)
           check == User_update(l.state, changes)
       IN IF ~l.found THEN Reject(p, "update_user", "UserNotFound")
          ELSE IF check # "Ok" THEN Reject(p, "update_user", check)
          ELSE BeginUserCommand(p, "update_user", l.state, "UserUpdated", changes)
    /\ UNCHANGED <<events, idempotency_keys, users, accounts, account_balances,
                   ledger_entries, event_snapshots, outside>>

\* DeactivateUserHandler::execute up to append_atomic: load_aggregate, the
\* is_system check, User::deactivate and the operation
StartDeactivateUser(p, user_id) ==
    /\ CanStart(p)
    /\ LET l == load_user(events, user_id)
           check == User_deactivate(l.state)
       IN IF ~l.found THEN Reject(p, "deactivate_user", "UserNotFound")
          ELSE IF is_system(users, user_id) THEN Reject(p, "deactivate_user", "Forbidden")
          ELSE IF check # "Ok" THEN Reject(p, "deactivate_user", check)
          ELSE BeginUserCommand(p, "deactivate_user", l.state, "UserDeactivated",
                                NoChanges)
    /\ UNCHANGED <<events, idempotency_keys, users, accounts, account_balances,
                   ledger_entries, event_snapshots, outside>>

\* the UPDATE users of the update handler: display_name and email of
\* user.apply(event), the user being the one the handler loaded
update_users_row(rows, t) ==
    LET applied_user == User_apply(t.user_state, EventRow(t, 1))
    IN { IF r.id = t.user
         THEN [r EXCEPT !.display_name = applied_user.display_name,
                        !.email = applied_user.email]
         ELSE r : r \in rows }

\* the UPDATE users of the deactivate handler: is_active = false
deactivate_users_row(rows, t) ==
    { IF r.id = t.user THEN [r EXCEPT !.is_active = FALSE] ELSE r : r \in rows }

\* "Sync users table (projection)": the UPDATE on the pool after append_atomic
\* has returned, and the handler's Ok
UserSync(p) ==
    /\ ~Responding
    /\ task[p].pc = "user_sync"
    /\ LET t == task[p]
       IN /\ users' = IF t.kind = "update_user" THEN update_users_row(users, t)
                      ELSE deactivate_users_row(users, t)
          /\ task' = [task EXCEPT ![p] = Returned(t, "Ok")]
    /\ UNCHANGED <<events, idempotency_keys, accounts, account_balances,
                   ledger_entries, event_snapshots, ncmd, outside>>

\* concurrent update-user and deactivate-user commands
UserNext ==
    \E p \in Procs :
        \/ \E u \in Users, c \in ChangeInputs : StartUpdateUser(p, u, c)
        \/ \E u \in Users : StartDeactivateUser(p, u)
        \/ TxBegin(p)
        \/ TxRead(p)
        \/ TxInsert(p)
        \/ TxCommit(p)
        \/ UserSync(p)
        \/ Respond(p)

UserSpec == Init /\ [][UserNext]_vars

(* ----------------------- streams of a User ---------------------------- *)

\* User::create: the stream of the user begins
UserCreate(user_id) ==
    /\ applied = <<>>
    /\ applied' = <<UserEvent("UserCreated", user_id, NoChanges)>>
    /\ aggregate' = User_apply(DefaultUser, UserEvent("UserCreated", user_id, NoChanges))
    /\ UNCHANGED <<events, idempotency_keys, users, accounts, account_balances,
                   ledger_entries, event_snapshots, task, ncmd, now, audit, calendar>>

\* user.update(changes), user.deactivate(reason) or user.reactivate() and, on
\* Ok(event), user = user.apply(event)
UserCommand(cmd) ==
    /\ applied # <<>>
    /\ Len(applied) < MaxStream
    /\ UserCommandResult(aggregate, cmd) = "Ok"
    /\ LET e == UserEvent(cmd.event_type, aggregate.id, cmd.changes)
       IN /\ applied' = Append(applied, e)
          /\ aggregate' = User_apply(aggregate, e)
    /\ UNCHANGED <<events, idempotency_keys, users, accounts, account_balances,
                   ledger_entries, event_snapshots, task, ncmd, now, audit, calendar>>

UserStreamNext ==
    \/ \E u \in Users : UserCreate(u)
    \/ \E cmd \in UserCommands : UserCommand(cmd)

\* every stream of at most MaxStream events the commands of a User produce
UserStreamSpec == Init /\ [][UserStreamNext]_vars

(* ------------------------- partition rollover -------------------------- *)

\* the Gregorian calendar of chrono::NaiveDate
is_leap_year(year) == (year % 4 = 0 /\ year % 100 # 0) \/ year % 400 = 0

\* days of the year before the first of the month
days_before_month(year, month) ==
    LET common == <<0, 31, 59, 90, 120, 151, 181, 212, 243, 273, 304, 334>>
    IN common[month] + (IF month > 2 /\ is_leap_year(year) THEN 1 ELSE 0)

\* days from the start of the calendar to the end of the year before `year`
days_before_year(year) ==
    LET y == year - 1
    IN 365 * y + (y \div 4) - (y \div 100) + (y \div 400)

\* NaiveDate::from_ymd_opt(year, month, day), as a day count
from_ymd(year, month, day) ==
    days_before_year(year) + days_before_month(year, month) + day

\* jobs::days_in_month: the first of the next month minus the first of this one
days_in_month(year, month) ==
    (IF month = 12 THEN from_ymd(year + 1, 1, 1) ELSE from_ymd(year, month + 1, 1))
    - from_ymd(year, month, 1)

\* jobs::should_create_partitions on the date of Utc::now()
should_create_partitions(date) ==
    date.day >= days_in_month(date.year, date.month) - 3

\* jobs::create_next_month_partitions: the partitions of events and
\* ledger_entries for the month after `date`, unless they exist
create_next_month_partitions(parts, date) ==
    LET next_month == IF date.month = 12
                      THEN [year |-> date.year + 1, month |-> 1]
                      ELSE [year |-> date.year, month |-> date.month + 1]
    IN parts \cup {[table |-> t, year |-> next_month.year, month |-> next_month.month] :
                     t \in {"events", "ledger_entries"}}

\* the day after `date`
Tomorrow(date) ==
    IF date.day < days_in_month(date.year, date.month)
    THEN [date EXCEPT !.day = @ + 1]
    ELSE IF date.month < 12
    THEN [date EXCEPT !.month = @ + 1, !.day = 1]
    ELSE [year |-> date.year + 1, month |-> 1, day |-> 1]

\* midnight passes; the partition interval of 3600 s has ticked during the day
NextDay ==
    /\ Tomorrow(today).year <= MaxYear
    /\ should_create_partitions(today)
       => create_next_month_partitions(partitions, today) = partitions
    /\ today' = Tomorrow(today)
    /\ UNCHANGED <<events, idempotency_keys, users, accounts, account_balances,
                   ledger_entries, event_snapshots, task, ncmd, now, applied,
                   aggregate, audit, partitions>>

\* JobScheduler::run: the partition interval ticks
PartitionCheck ==
    /\ partitions' = IF should_create_partitions(today)
                     THEN create_next_month_partitions(partitions, today)
                     ELSE partitions
    /\ UNCHANGED <<events, idempotency_keys, users, accounts, account_balances,
                   ledger_entries, event_snapshots, task, ncmd, now, applied,
                   aggregate, audit, today>>

\* the scheduler is started on the first of any month of a leap year or of
\* the years after it
PartitionInit ==
    /\ events = {SeedEvent} \cup FirstUserEvents \cup FirstMintEvents
    /\ idempotency_keys = [k \in Keys |-> NoRow]
    /\ users = SeedUsers \cup {FirstUserRow}
    /\ accounts = SeedAccounts \cup {FirstUserAccount}
    /\ \E seed \in SeedBalances :
          /\ account_balances = FirstMint(FirstUserBalances(seed)).balances
          /\ ledger_entries = FirstMint(FirstUserBalances(seed)).ledger
    /\ event_snapshots = [a \in {} |-> 0]
    /\ task = [p \in Procs |-> IdleTask]
    /\ ncmd = [money |-> 1, user |-> 1, freeze |-> 0, profile |-> 0]
    /\ now = 0
    /\ applied = <<>>
    /\ aggregate = DefaultAccount
    /\ audit_logs = <<>>
    /\ verification = NoResult
    /\ today \in {[year |-> y, month |-> m, day |-> 1] : y \in 2024..MaxYear, m \in 1..12}
    /\ partitions = {}

PartitionNext == NextDay \/ PartitionCheck

PartitionSpec == PartitionInit /\ [][PartitionNext]_vars

(* -------------------- start_processing on any row --------------------- *)

\* the values of the column processing_status, "none" for no row
StatusValues == {"none", "pending", "processing", "completed", "failed"}

\* the rows a key can have, written at minute 0
ProcessingInit ==
    /\ events = {SeedEvent} \cup FirstUserEvents \cup FirstMintEvents
    /\ idempotency_keys \in
          [Keys -> {NoRow} \cup
                   {KeyRow(st, e, 0, h, 0) :
                      st \in StatusValues \ {"none"}, e \in {0, NewEventId(2, 1)},
                      h \in Hashes}]
    /\ users = SeedUsers \cup {FirstUserRow}
    /\ accounts = SeedAccounts \cup {FirstUserAccount}
    /\ \E seed \in SeedBalances :
          /\ account_balances = FirstMint(FirstUserBalances(seed)).balances
          /\ ledger_entries = FirstMint(FirstUserBalances(seed)).ledger
    /\ event_snapshots = [a \in {} |-> 0]
    /\ task = [p \in Procs |-> IdleTask]
    /\ ncmd = [money |-> 1, user |-> 1, freeze |-> 0, profile |-> 0]
    /\ now = 0
    /\ applied = <<>>
    /\ aggregate = DefaultAccount
    /\ audit_logs = <<>>
    /\ verification = NoResult
    /\ today = FirstDay
    /\ partitions = {}

\* callers of start_processing while time passes
ProcessingNext ==
    \/ Tick
    \/ \E k \in Keys, h \in Hashes : RepoStartProcessing(k, h)

ProcessingSpec == ProcessingInit /\ [][ProcessingNext]_vars

(* ------------------------ folding an Account --------------------------- *)

\* amounts an AccountEvent of a stream carries: not positive, valid, the
\* largest valid one, and one above it
StreamAmounts == {0 - 1, 0, 1, MAX_AMOUNT, MAX_AMOUNT + 1}

\* the AccountEvents of one account, as Account::apply reads them
StreamEvents ==
    {Event(0, FirstWallet, 0, "AccountCreated", 0, 0, NoKey, FirstUser, "user_wallet"),
     Event(0, FirstWallet, 0, "AccountFrozen", 0, 0, NoKey, 0, ""),
     Event(0, FirstWallet, 0, "AccountUnfrozen", 0, 0, NoKey, 0, "")}
    \cup {Event(0, FirstWallet, 0, type, a, 0, NoKey, 0, "") :
            type \in {"MoneyCredited", "MoneyDebited"}, a \in StreamAmounts}

\* aggregate = aggregate.apply(event), for the next event of a stream
ApplyEvent(e) ==
    /\ Len(applied) < MaxStream
    /\ applied' = Append(applied, e)
    /\ aggregate' = apply(aggregate, e)
    /\ UNCHANGED <<events, idempotency_keys, users, accounts, account_balances,
                   ledger_entries, event_snapshots, task, ncmd, now, audit, calendar>>

ApplyNext == \E e \in StreamEvents : ApplyEvent(e)

\* every stream of at most MaxStream events folded onto Account::default()
ApplySpec == Init /\ [][ApplyNext]_vars

(* ------------------------ debiting an Account -------------------------- *)

\* the Amounts a debit is called with
DebitAmounts == (1..MaxAmount) \cup {MAX_AMOUNT}

\* the event in the Ok of Account::debit
debit_event(acc, amount) ==
    Event(0, acc.id, 0, "MoneyDebited", amount, 0, NoKey, 0, "")

\* the other events of the account's stream
DebitStreamEvents ==
    {e \in StreamEvents :
        \/ e.event_type \in {"AccountCreated", "AccountFrozen", "AccountUnfrozen"}
        \/ e.event_type = "MoneyCredited" /\ e.amount \in DebitAmounts}

\* account.debit(&amount, ..) and, on Ok(event), account = account.apply(event)
Debit(amount) ==
    /\ Len(applied) < MaxStream
    /\ debit(aggregate, amount) = "Ok"
    /\ applied' = Append(applied, debit_event(aggregate, amount))
    /\ aggregate' = apply(aggregate, debit_event(aggregate, amount))
    /\ UNCHANGED <<events, idempotency_keys, users, accounts, account_balances,
                   ledger_entries, event_snapshots, task, ncmd, now, audit, calendar>>

DebitNext ==
    \/ \E e \in DebitStreamEvents : ApplyEvent(e)
    \/ \E amount \in DebitAmounts : Debit(amount)

\* an account that is created, credited, frozen, unfrozen and debited
DebitSpec == Init /\ [][DebitNext]_vars

(* ------------- a long history: snapshots at version 100 ---------------- *)

\* the mints of one unit to the first user that precede the behaviour: they
\* bring SYSTEM_MINT and the first wallet from version 2 to the version before
\* the first snapshot.  Their run numbers lie above those the behaviour uses.
HistoryLen == SNAPSHOT_INTERVAL - 3
HistoryBase == 100
HistoryRun(i) == HistoryBase + i

\* MintHandler::execute for history run i: the two appended events
HistoryEvents ==
    UNION { { Event(NewEventId(HistoryRun(i), 1), MintAccountId, i + 2,
                    "MoneyDebited", 1, HistoryRun(i), NoKey, 0, ""),
              Event(NewEventId(HistoryRun(i), 2), FirstWallet, i + 2,
                    "MoneyCredited", 1, HistoryRun(i), NoKey, 0, "") }
            : i \in 1..HistoryLen }

\* ProjectionService::apply_mint after each of the history runs: the two
\* ledger rows of every run, and the balance rows as the last run leaves them
HistoryLedger ==
    UNION { create_ledger_entries(HistoryRun(i), NewEventId(HistoryRun(i), 1),
                                  MintAccountId, FirstWallet, 1)
            : i \in 1..HistoryLen }
HistoryBalances(balances) ==
    LET last == NewEventId(HistoryRun(HistoryLen), 1)
    IN [a \in DOMAIN balances |->
          IF a = MintAccountId
          THEN BalanceRow(balances[a].balance - HistoryLen, last, HistoryLen + 2)
          ELSE IF a = FirstWallet
          THEN BalanceRow(balances[a].balance + HistoryLen, last, HistoryLen + 2)
          ELSE balances[a]]

\* the store after the seed, the first user, the first mint and the history
\* mints: no aggregate has reached a snapshot version yet
SnapInit ==
    /\ events = {SeedEvent} \cup FirstUserEvents \cup FirstMintEvents \cup HistoryEvents
    /\ idempotency_keys = [k \in Keys |-> NoRow]
    /\ users = SeedUsers \cup {FirstUserRow}
    /\ accounts = SeedAccounts \cup {FirstUserAccount}
    /\ \E seed \in SeedBalances :
          LET first == FirstMint(FirstUserBalances(seed))
          IN /\ account_balances = HistoryBalances(first.balances)
             /\ ledger_entries = first.ledger \cup HistoryLedger
    /\ event_snapshots = [a \in {} |-> 0]
    /\ task = [p \in Procs |-> IdleTask]
    /\ ncmd = [money |-> 1, user |-> 1, freeze |-> 0, profile |-> 0]
    /\ now = 0
    /\ applied = <<>>
    /\ aggregate = DefaultAccount
    /\ audit_logs = <<>>
    /\ verification = NoResult
    /\ today = FirstDay
    /\ partitions = {}

\* mints to and burns by the first user, one handler run at a time
SnapNext ==
    \/ \E a \in AmountInputs, k \in KeyInputs : StartMint(1, FirstUser, a, k)
    \/ \E a \in AmountInputs, k \in KeyInputs : StartBurn(1, FirstUser, a, k)
    \/ TxBegin(1)
    \/ TxKeyInsert(1)
    \/ TxRead(1)
    \/ TxInsert(1)
    \/ TxCommit(1)
    \/ Project(1)
    \/ Respond(1)

SnapSpec == SnapInit /\ [][SnapNext]_vars

(* ------------------- freezing and unfreezing accounts ------------------ *)

\* a caller of the library freezes (unfreezes) the wallet of a user:
\* load_aggregate, Account::freeze (Account::unfreeze) and the operation handed
\* to append_atomic without a key.  No projection follows the append.
StartFreeze(p, user, kind) ==
    /\ CanStart(p)
    /\ LET id == get_wallet_account_id(accounts, user)
           l == load_aggregate(events, event_snapshots, id)
           t == [IdleTask EXCEPT !.kind = kind, !.user = user, !.from_id = id,
                                 !.to_id = id]
           check == IF kind = "freeze" THEN freeze(l.state) ELSE unfreeze(l.state)
           ops == << Op(id, l.state.version,
                        IF kind = "freeze" THEN "AccountFrozen" ELSE "AccountUnfrozen",
                        0, 0, "") >>
       IN /\ id # 0
          /\ l.found
          /\ IF check # "Ok" THEN Reject(p, kind, check)
             ELSE /\ ncmd.freeze < MaxFreezeCmds
                  /\ task' = [task EXCEPT ![p] =
                               [t EXCEPT !.seq = NextSeq, !.from_acc = l.state,
                                         !.to_acc = l.state, !.ops = ops,
                                         !.attempt = 0, !.pc = "tx_begin"]]
                  /\ ncmd' = [ncmd EXCEPT !.freeze = @ + 1]
    /\ UNCHANGED <<events, idempotency_keys, users, accounts, account_balances,
                   ledger_entries, event_snapshots, outside>>

\* transfers between users whose wallets are frozen and unfrozen in between,
\* one run at a time
FreezeNext ==
    \/ \E u \in Users : StartCreateUser(1, u)
    \/ \E u \in Users : StartFreeze(1, u, "freeze")
    \/ \E u \in Users : StartFreeze(1, u, "unfreeze")
    \/ \E u \in Users, v \in Users, a \in AmountInputs, k \in KeyInputs,
          r \in Users \cup {NoUser} : StartTransfer(1, u, v, a, k, r)
    \/ TxBegin(1)
    \/ TxKeyInsert(1)
    \/ TxRead(1)
    \/ TxInsert(1)
    \/ TxCommit(1)
    \/ Project(1)
    \/ CreateUserRows(1)
    \/ Respond(1)

FreezeSpec == Init /\ [][FreezeNext]_vars

(* ----------------------- concurrent create-user ------------------------ *)

\* the store after the seed, before any user is created
CreateInit ==
    /\ events = {SeedEvent}
    /\ idempotency_keys = [k \in Keys |-> NoRow]
    /\ users = SeedUsers
    /\ accounts = SeedAccounts
    /\ account_balances \in SeedBalances
    /\ ledger_entries = {}
    /\ event_snapshots = [a \in {} |-> 0]
    /\ task = [p \in Procs |-> IdleTask]
    /\ ncmd = [money |-> 0, user |-> 0, freeze |-> 0, profile |-> 0]
    /\ now = 0
    /\ applied = <<>>
    /\ aggregate = DefaultAccount
    /\ audit_logs = <<>>
    /\ verification = NoResult
    /\ today = FirstDay
    /\ partitions = {}

\* create-user commands on concurrent tasks
CreateNext ==
    \E p \in Procs :
        \/ \E u \in CreateUsers : StartCreateUser(p, u)
        \/ TxBegin(p)
        \/ TxRead(p)
        \/ TxInsert(p)
        \/ TxCommit(p)
        \/ CreateUserRows(p)
        \/ Respond(p)

CreateSpec == CreateInit /\ [][CreateNext]_vars

(* ----------------------------- audit log ------------------------------- *)

\* "000...0" (64 zeros), the previous_hash of the first entry
ZeroHash == <<>>

\* sha256_hex, taken to be free of collisions: the digest stands for its input
sha256_hex(input) == <<input>>

\* verify_hash_chain lines 246-255: id, seq, action, request_user_id (0 for
\* None), before_state and after_state ("" for None) and previous_hash, in
\* this order.  The fields are kept apart; the format! of the code puts no
\* separator between them.
hash_input(e) ==
    <<e.id, e.sequence_number, e.action, e.request_user_id, e.before_state,
      e.after_state, e.previous_hash>>

\* a value that is the hash of no entry
JunkHash == sha256_hex(<<0, 0, "junk", 0, "", "", ZeroHash>>)

\* ids AuditLogService::log draws with Uuid::new_v4()
AuditIdBase == 9000

\* the INSERT of AuditLogService::log with the trigger of the store, which
\* sets sequence_number, previous_hash and current_hash
audit_logs_insert(log, action, request_user_id, before_state, after_state) ==
    LET seq == Len(log) + 1
        e == [id |-> AuditIdBase + seq, sequence_number |-> seq, action |-> action,
              request_user_id |-> request_user_id, before_state |-> before_state,
              after_state |-> after_state,
              previous_hash |-> IF log = <<>> THEN ZeroHash
                                ELSE log[Len(log)].current_hash,
              current_hash |-> ZeroHash]
    IN Append(log, [e EXCEPT !.current_hash = sha256_hex(hash_input(e))])

verify_entries_without_linkage(entries, lo, hi, previous_hash) ==
    LET bad == {j \in lo..hi :
                   sha256_hex(hash_input(entries[j])) # entries[j].current_hash}
    IN IF bad = {}
       THEN [is_valid |-> TRUE, entries_checked |-> Len(entries),
             first_invalid_entry |-> 0]
       ELSE [is_valid |-> FALSE,
             entries_checked |-> entries[MinOf(bad)].sequence_number,
             first_invalid_entry |-> entries[MinOf(bad)].id]

\* verify_hash_chain, the loop over the entries lo..hi with previous_hash as
\* it is when the loop reaches entry lo: the linkage check, the recomputed
\* hash, and the return at the first entry that fails.  The range is walked in
\* two halves, the upper one only when the lower one found nothing, which keeps
\* the nesting of a hundred entries at seven.
RECURSIVE verify_entries(_, _, _, _)
verify_entries(entries, lo, hi, previous_hash) ==
    IF lo > hi
    THEN [is_valid |-> TRUE, entries_checked |-> Len(entries),
          first_invalid_entry |-> 0]
    ELSE IF lo = hi
    THEN LET e == entries[lo]
         IN IF e.previous_hash # previous_hash
            THEN [is_valid |-> FALSE, entries_checked |-> e.sequence_number,
                  first_invalid_entry |-> e.id]
            ELSE IF sha256_hex(hash_input(e)) # e.current_hash
            THEN [is_valid |-> FALSE, entries_checked |-> e.sequence_number,
                  first_invalid_entry |-> e.id]
            ELSE [is_valid |-> TRUE, entries_checked |-> Len(entries),
                  first_invalid_entry |-> 0]
    ELSE LET mid == (lo + hi) \div 2
             lower == verify_entries(entries, lo, mid, previous_hash)
         IN IF ~lower.is_valid THEN lower
            ELSE verify_entries(entries, mid + 1, hi, entries[mid].current_hash)

\* the rows SELECT ... ORDER BY sequence_number ASC LIMIT $1 returns
select_entries(log, limit) ==
    SubSeq(log, 1, IF limit < Len(log) THEN limit ELSE Len(log))

\* AuditLogService::verify_hash_chain
verify_hash_chain(log, limit) ==
    LET entries == select_entries(log, limit)
    IN IF entries = <<>>
       THEN [is_valid |-> TRUE, entries_checked |-> 0, first_invalid_entry |-> 0]
       ELSE verify_entries(entries, 1, Len(entries), ZeroHash)

AuditActions == {"transfer.executed", "user.created"}
VerifyLimits == {1, 2, DEFAULT_LIMIT}

\* AuditLogService::log
AuditLog(action, request_user_id) ==
    /\ verification = NoResult
    /\ Len(audit_logs) < MaxAudit
    /\ audit_logs' = audit_logs_insert(audit_logs, action, request_user_id, "", "")
    /\ UNCHANGED <<events, idempotency_keys, users, accounts, account_balances,
                   ledger_entries, event_snapshots, task, ncmd, now, applied,
                   aggregate, verification, calendar>>

\* somebody with write access to the table overwrites a column of a row
Tamper(seq, column) ==
    /\ verification = NoResult
    /\ seq \in 1..Len(audit_logs)
    /\ audit_logs' =
          [audit_logs EXCEPT ![seq] =
              CASE column = "action" -> [@ EXCEPT !.action = "tampered"]
                [] column = "previous_hash" -> [@ EXCEPT !.previous_hash = JunkHash]
                [] column = "current_hash" -> [@ EXCEPT !.current_hash = JunkHash]
                [] column = "rehash" ->
                      [@ EXCEPT !.current_hash =
                                    sha256_hex(hash_input(audit_logs[seq]))]]
    /\ audit_logs' # audit_logs
    /\ UNCHANGED <<events, idempotency_keys, users, accounts, account_balances,
                   ledger_entries, event_snapshots, task, ncmd, now, applied,
                   aggregate, verification, calendar>>

\* a call of verify_hash_chain(Some(limit)); its result is kept with the log
\* it was computed from
Verify(limit) ==
    /\ verification = NoResult
    /\ LET r == verify_hash_chain(audit_logs, limit)
       IN verification' = [is_valid |-> r.is_valid,
                           entries_checked |-> r.entries_checked,
                           first_invalid_entry |-> r.first_invalid_entry,
                           limit |-> limit]
    /\ UNCHANGED <<events, idempotency_keys, users, accounts, account_balances,
                   ledger_entries, event_snapshots, task, ncmd, now, applied,
                   aggregate, audit_logs, calendar>>

AuditNext ==
    \/ \E a \in AuditActions, u \in {NoUser, FirstUser} : AuditLog(a, u)
    \/ \E i \in 1..MaxAudit,
          c \in {"action", "previous_hash", "current_hash", "rehash"} : Tamper(i, c)
    \/ \E l \in VerifyLimits : Verify(l)

AuditSpec == Init /\ [][AuditNext]_vars

\* n more calls of AuditLogService::log.  The calls are made in two halves, the
\* first half first (a log never gets shorter, so the test on it always
\* passes), which keeps the nesting of a hundred calls at seven.
RECURSIVE LogMany(_, _)
LogMany(log, n) ==
    IF n = 0 THEN log
    ELSE IF n = 1 THEN audit_logs_insert(log, "transfer.executed", FirstUser, "", "")
    ELSE LET first == LogMany(log, n \div 2)
         IN IF Len(first) >= Len(log) THEN LogMany(first, n - n \div 2) ELSE log

\* the audit log after ChainLen entries have been written
ChainInit ==
    /\ events = {SeedEvent} \cup FirstUserEvents \cup FirstMintEvents
    /\ idempotency_keys = [k \in Keys |-> NoRow]
    /\ users = SeedUsers \cup {FirstUserRow}
    /\ accounts = SeedAccounts \cup {FirstUserAccount}
    /\ \E seed \in SeedBalances :
          /\ account_balances = FirstMint(FirstUserBalances(seed)).balances
          /\ ledger_entries = FirstMint(FirstUserBalances(seed)).ledger
    /\ event_snapshots = [a \in {} |-> 0]
    /\ task = [p \in Procs |-> IdleTask]
    /\ ncmd = [money |-> 1, user |-> 1, freeze |-> 0, profile |-> 0]
    /\ now = 0
    /\ applied = <<>>
    /\ aggregate = DefaultAccount
    /\ audit_logs = LogMany(<<>>, ChainLen)
    /\ verification = NoResult
    /\ today = FirstDay
    /\ partitions = {}

\* the current_hash of one entry is overwritten, once
OverwriteCurrentHash(seq) ==
    /\ \A i \in 1..Len(audit_logs) : audit_logs[i].current_hash # JunkHash
    /\ Tamper(seq, "current_hash")

ChainNext ==
    \/ \E i \in 1..ChainLen : OverwriteCurrentHash(i)
    \/ \E l \in VerifyLimits : Verify(l)

ChainSpec == ChainInit /\ [][ChainNext]_vars

(* ---------------------------- observations ----------------------------- *)

RECURSIVE SumAmounts(_)
SumAmounts(rows) ==
    IF rows = {} THEN 0
    ELSE LET r == CHOOSE x \in rows : TRUE
         IN r.amount + SumAmounts(rows \ {r})

\* the aggregates that are user wallets, by their AccountCreated event
WalletAggregates ==
    {e.aggregate_id : e \in {x \in events : x.event_type = "AccountCreated"
                                            /\ x.account_type = "user_wallet"}}

\* committed credits minus committed debits of an aggregate
EventNet(agg) ==
    SumAmounts({e \in events : e.aggregate_id = agg /\ e.event_type = "MoneyCredited"})
    - SumAmounts({e \in events : e.aggregate_id = agg /\ e.event_type = "MoneyDebited"})

\* the balance account_balances shows for an account, 0 when it has no row
ProjectedBalance(balances, a) == IF a \in DOMAIN balances THEN balances[a].balance ELSE 0

\* ledger rows that raise an account (debit rows) minus those that lower it
LedgerNet(a) ==
    SumAmounts({r \in ledger_entries : r.account_id = a /\ r.entry_type = "debit"})
    - SumAmounts({r \in ledger_entries : r.account_id = a /\ r.entry_type = "credit"})

EventsOfRun(run) == {e \in events : e.transfer_id = run /\ run # 0}

\* the append of a run has committed and its projection has not yet run
AwaitsProjection(run) == \E p \in Procs : task[p].seq = run /\ task[p].pc = "project"

\* the task got a cached event id from append_atomic, and that event belongs to
\* an earlier run of the very command the task carries
IsResubmission(t) ==
    /\ Len(t.event_ids) = 1
    /\ \E e \in events :
          /\ e.id = t.event_ids[1]
          /\ e.idempotency_key = t.key
          /\ e.event_type = "MoneyDebited"
          /\ e.aggregate_id = t.from_id
          /\ e.amount = t.amount
          /\ \E c \in EventsOfRun(e.transfer_id) :
                c.event_type = "MoneyCredited" /\ c.aggregate_id = t.to_id
                /\ c.amount = t.amount

\* an append_atomic call of the task has failed: an attempt that is retried, or
\* the error the call returned
AppendHasFailed(t) ==
    \/ t.pc = "tx_begin" /\ t.attempt > 0
    \/ t.pc = "done" /\ t.store_error # "none"

(* ------------------------------ claims --------------------------------- *)

\* C1: when a key's row is completed and its event is the MoneyDebited of a
\* mint, that key is on no other event, the mint's run has exactly one
\* MoneyDebited on SYSTEM_MINT and exactly one MoneyCredited, the mint is
\* projected once (one ledger row on SYSTEM_MINT for its event, none before its
\* projection ran), and every wallet's projected balance is the net of its
\* ledger rows: resubmitting the mint under the key adds nothing.
C1_MintOnce ==
    /\ \A k \in Keys :
         \A e \in events :
            ( /\ idempotency_keys[k].status = "completed"
              /\ idempotency_keys[k].event_id = e.id
              /\ e.aggregate_id = MintAccountId )
            => /\ {x \in events : x.idempotency_key = k} = {e}
               /\ e.event_type = "MoneyDebited"
               /\ Cardinality({x \in EventsOfRun(e.transfer_id) :
                                 x.event_type = "MoneyDebited"}) = 1
               /\ Cardinality({x \in EventsOfRun(e.transfer_id) :
                                 x.event_type = "MoneyCredited"
                                 /\ x.aggregate_id \in WalletAggregates
                                 /\ x.amount = e.amount}) = 1
               /\ Cardinality(EventsOfRun(e.transfer_id)) = 2
               /\ Cardinality({r \in ledger_entries :
                                 r.transfer_event_id = e.id
                                 /\ r.account_id = MintAccountId})
                    = IF AwaitsProjection(e.transfer_id) THEN 0 ELSE 1
    /\ \A a \in WalletAggregates :
         a \in DOMAIN account_balances => account_balances[a].balance = LedgerNet(a)

\* C1 witness: a mint answered Ok from the cached event of an earlier,
\* projected run of the same mint
C1_Witness ==
    \E p \in Procs :
        /\ task[p].pc = "done" /\ task[p].kind = "mint" /\ task[p].result = "Ok"
        /\ IsResubmission(task[p])
        /\ \E r \in ledger_entries :
              r.transfer_event_id = task[p].event_ids[1] /\ r.account_id = MintAccountId

\* C2: the step in which a transfer or burn resubmitted under the key of its
\* committed first run goes on after append_atomic appends no event, changes
\* no account_balances balance and inserts no ledger_entries row.
C2_ResubmissionHasNoEffect ==
    [][\A p \in Procs :
          ( /\ task[p].pc = "project" /\ task'[p].pc = "done"
            /\ task[p].kind \in {"transfer", "burn"}
            /\ IsResubmission(task[p]) )
          => /\ events' = events
             /\ ledger_entries' = ledger_entries
             /\ \A a \in DOMAIN account_balances' :
                   ProjectedBalance(account_balances', a)
                     = ProjectedBalance(account_balances, a)]_vars

C4_ContiguousVersions ==
    \A agg \in {e.aggregate_id : e \in events} :
        LET es == {e \in events : e.aggregate_id = agg}
        IN /\ {e.version : e \in es} = 1..Cardinality(es)

\* C4 witness: two append_atomic calls are in their transactions on the same
\* aggregate, which already has two committed versions
C4_Witness ==
    \E p \in Procs, q \in Procs :
        /\ p # q
        /\ task[p].pc \in TxPcs /\ task[q].pc \in TxPcs
        /\ \E i \in 1..Len(task[p].ops), j \in 1..Len(task[q].ops) :
              /\ task[p].ops[i].aggregate_id = task[q].ops[j].aggregate_id
              /\ get_current_version(events, task[p].ops[i].aggregate_id) >= 2

\* C5: at the commit of an append, every event it appends has version
\* pre_version + 1, pre_version being the aggregate's highest committed version
\* just before the commit, and pre_version is the operation's expected_version
C5_VersionIsPrePlusOne ==
    [][\A p \in Procs :
          (task[p].pc = "tx_commit" /\ task'[p].pc # "tx_commit")
          => \A i \in 1..Len(task[p].ops) :
                LET op == task[p].ops[i]
                    pre_version == get_current_version(events, op.aggregate_id)
                IN /\ pre_version = op.expected_version
                   /\ \E e \in events' \ events :
                         /\ e.id = task[p].event_ids[i]
                         /\ e.aggregate_id = op.aggregate_id
                         /\ e.version = pre_version + 1]_vars

\* C5 witness: an append that started from versions above the initial ones has
\* returned its two event ids, and both events are committed
C5_Witness ==
    \E p \in Procs :
        /\ task[p].pc = "project" /\ Len(task[p].event_ids) = 2
        /\ \A i \in 1..2 : \E e \in events :
              e.id = task[p].event_ids[i] /\ e.version >= 3

\* C6: after an attempt of append_atomic has failed, none of the events of that
\* call is committed and no idempotency_keys row written by it exists
C6_AllOrNothing ==
    \A p \in Procs :
        AppendHasFailed(task[p])
        => /\ \A e \in events : RunOf(e.id) # task[p].seq
           /\ \A k \in Keys :
                 idempotency_keys[k].status # "none"
                 => idempotency_keys[k].xmin # task[p].seq

\* C6 witness: a call that carried a key failed on its second operation, after
\* the key row and the first event had been inserted
C6_Witness ==
    \E p \in Procs :
        /\ task[p].pc = "done" /\ task[p].store_error # "none"
        /\ task[p].key # NoKey /\ task[p].rolled_back >= 1

\* C7: when every command has returned, the account_balances balances of the
\* user wallets plus the balance of SYSTEM_MINT add up to 0
C7_Conservation ==
    (\A p \in Procs : task[p].pc \in {"idle", "done"})
    => SumAmounts({[account_id |-> a, amount |-> ProjectedBalance(account_balances, a)] :
                     a \in WalletAggregates})
       + ProjectedBalance(account_balances, MintAccountId) = 0

\* C8: the projection step of a transfer lowers the sender's balance by the
\* amount and raises the recipient's balance by the amount
C8_TransferMovesAmount ==
    [][\A p \in Procs :
          ( /\ task[p].pc = "project" /\ task'[p].pc = "done"
            /\ task[p].kind = "transfer" )
          => /\ ProjectedBalance(account_balances', task[p].from_id)
                  = ProjectedBalance(account_balances, task[p].from_id) - task[p].amount
             /\ ProjectedBalance(account_balances', task[p].to_id)
                  = ProjectedBalance(account_balances, task[p].to_id) + task[p].amount
             /\ task[p].from_id # task[p].to_id]_vars

\* C8 witness: a transfer that appended its two events has returned Ok
C8_Witness ==
    \E p \in Procs :
        /\ task[p].pc = "done" /\ task[p].kind = "transfer" /\ task[p].result = "Ok"
        /\ Len(task[p].event_ids) = 2

\* C9: every journal_id has exactly one debit row and one credit row, of equal amount
C9_DoubleEntry ==
    \A j \in {r.journal_id : r \in ledger_entries} :
        LET debits == {r \in ledger_entries : r.journal_id = j /\ r.entry_type = "debit"}
            credits == {r \in ledger_entries : r.journal_id = j /\ r.entry_type = "credit"}
        IN /\ Cardinality(debits) = 1
           /\ Cardinality(credits) = 1
           /\ SumAmounts(debits) = SumAmounts(credits)

\* C9 witness: apply_mint and apply_transfer have both committed a journal
C9_Witness ==
    /\ \E r \in ledger_entries :
          r.journal_id > 2 /\ r.entry_type = "credit" /\ r.account_id = MintAccountId
    /\ \E r \in ledger_entries :
          r.journal_id > 2 /\ r.entry_type = "credit" /\ r.account_id \in WalletAggregates

\* C10: the events of a mint, transfer or burn are committed if and only if
\* its ledger_entries rows are
C10_ProjectionWithEvents ==
    /\ \A e \in events :
          e.event_type = "MoneyDebited"
          => \E r \in ledger_entries :
                r.transfer_event_id = e.id /\ r.journal_id = e.transfer_id
    /\ \A r \in ledger_entries :
          \E e \in events : e.id = r.transfer_event_id

\* C11: when an attempt after the first of an append_atomic call checks the
\* version of an aggregate to which another writer has committed exactly the
\* version after the one the call expects, the check passes and the call goes
\* on to insert its event: the retry has reloaded and succeeds
C11_RetryReloadsAndSucceeds ==
    [][\A p \in Procs :
          ( /\ task[p].pc = "tx_read" /\ task[p].attempt >= 1
            /\ task'[p] # task[p]
            /\ get_current_version(events, task[p].ops[task[p].idx].aggregate_id)
                 = task[p].ops[task[p].idx].expected_version + 1 )
          => task'[p].pc = "tx_insert"]_vars

\* C12: when the last of the MAX_RETRIES attempts of an append_atomic call
\* fails its version check, the error the call returns is MaxRetriesExceeded
C12_MaxRetriesExceeded ==
    [][\A p \in Procs :
          ( /\ task[p].pc = "tx_read" /\ task[p].attempt = MAX_RETRIES - 1
            /\ task'[p].pc = "done" )
          => task'[p].store_error = "MaxRetriesExceeded"]_vars

\* C13: the idempotency check of append_atomic on a row that is completed ends
\* the call at once with exactly the row's event id: no version is read, no
\* event and no key row is written, whatever the operations of the call are
C13_CompletedKeyReturnsCached ==
    [][\A p \in Procs :
          ( /\ task[p].pc = "tx_begin" /\ task[p].key # NoKey
            /\ idempotency_keys[task[p].key].status = "completed"
            /\ task'[p] # task[p] )
          => /\ task'[p].event_ids = <<idempotency_keys[task[p].key].event_id>>
             /\ task'[p].pc \in {"project", "done"}
             /\ task'[p].store_error = "none"
             /\ events' = events
             /\ idempotency_keys' = idempotency_keys]_vars

\* C13 witness: append_atomic has returned one cached id to a burn, and that id
\* is not the event of this burn: it belongs to another command
C13_Witness ==
    \E p \in Procs :
        /\ task[p].pc = "project" /\ task[p].kind = "burn"
        /\ Len(task[p].event_ids) = 1
        /\ idempotency_keys[task[p].key].status = "completed"
        /\ ~IsResubmission(task[p])

\* C14: the idempotency check of append_atomic on a row that is processing
\* fails the call with IdempotencyKeyExists if and only if the row has been
\* processing for at most STALE_MINUTES; on an older row the call goes on
C14_ProcessingKeyFailsOnlyWhileFresh ==
    [][\A p \in Procs :
          ( /\ task[p].pc = "tx_begin" /\ task[p].key # NoKey
            /\ idempotency_keys[task[p].key].status = "processing"
            /\ task'[p] # task[p] )
          => ( ( /\ task'[p].pc = "done"
                 /\ task'[p].store_error = "IdempotencyKeyExists" )
               <=> now - idempotency_keys[task[p].key].processing_started_at
                      <= STALE_MINUTES )]_vars

\* C15: the mint_id in the MintResult of a mint resubmitted under the key of
\* its first run equals the mint_id the MintResult of that first run carried
C15_SameMintIdInEveryResponse ==
    \A p \in Procs :
        ( /\ task[p].pc = "done" /\ task[p].kind = "mint" /\ task[p].result = "Ok"
          /\ IsResubmission(task[p]) )
        => \A e \in events :
              e.id = task[p].event_ids[1]
              => \* the first run returned the mint_id it put on its events
                 MintResult_mint_id(task[p]) = e.transfer_id

\* C16: a command that comes back from append_atomic with the cached event id
\* of its key, while that event belongs to a command with another body, ends
\* with HashMismatch
C16_DifferentBodyIsHashMismatch ==
    \A p \in Procs :
        ( /\ task[p].pc = "done" /\ task[p].key # NoKey
          /\ Len(task[p].event_ids) = 1
          /\ ~IsResubmission(task[p]) )
        => task[p].result = "HashMismatch"

\* C17: after every Account::apply the version of the folded account is the
\* number of events applied; an apply of a MoneyCredited or MoneyDebited whose
\* amount Amount::new refuses, or whose result Balance::new refuses, leaves the
\* balance as it was and raises the version by exactly 1; and apply always
\* yields an account
C17_VersionCountsApplied ==
    [][applied' # applied
       => LET e == applied'[Len(applied')]
              moved == IF e.event_type = "MoneyCredited"
                       THEN aggregate.balance + e.amount
                       ELSE aggregate.balance - e.amount
          IN /\ aggregate.version = Len(applied)
             /\ aggregate'.version = Len(applied')
             /\ aggregate'.version = aggregate.version + 1
             /\ DOMAIN aggregate' = DOMAIN DefaultAccount
             /\ ( /\ e.event_type \in {"MoneyCredited", "MoneyDebited"}
                  /\ (e.amount <= 0 \/ e.amount > MAX_AMOUNT
                      \/ moved < 0 \/ moved > MAX_AMOUNT) )
                => aggregate'.balance = aggregate.balance]_vars

\* C17 witness: a stream in which a valid credit overflowed the balance and a
\* valid debit underflowed it has been folded: the balance is the first
\* credit, the version counts all four events
C17_Witness ==
    /\ Len(applied) = 4
    /\ applied[2].event_type = "MoneyCredited" /\ applied[2].amount = 1
    /\ applied[3].event_type = "MoneyCredited" /\ applied[3].amount = MAX_AMOUNT
    /\ applied[4].event_type = "MoneyDebited" /\ applied[4].amount = MAX_AMOUNT
    /\ aggregate.balance = 1
    /\ aggregate.version = 4

\* C18: for every account aggregate with committed events 1..v and a snapshot
\* at version s <= v (s = 0 when there is none), load_aggregate yields the
\* state obtained by folding apply over all its events from the default
\* state, and that state's version is v
C18_SnapshotRoundTrip ==
    \A agg \in {r.id : r \in accounts} :
        LET es == {e \in events : e.aggregate_id = agg}
            v == get_current_version(events, agg)
            s == load_snapshot(event_snapshots, agg).from_version
            loaded == load_aggregate(events, event_snapshots, agg)
        IN (v >= 1 /\ s <= v)
           => /\ loaded.found
              /\ loaded.state = replay(DefaultAccount, es)
              /\ loaded.state.version = v

\* the last AccountFrozen / AccountUnfrozen event of the aggregate, if there
\* is one, is an AccountFrozen
IsFrozen(agg) ==
    LET fs == {e \in events : /\ e.aggregate_id = agg
                              /\ e.event_type \in {"AccountFrozen", "AccountUnfrozen"}}
    IN /\ fs # {}
       /\ \E e \in fs : /\ e.event_type = "AccountFrozen"
                        /\ \A x \in fs : x.version <= e.version

\* the step is the start of a transfer of a from u to v by task p that passes
\* the checks which precede the domain checks: u is the authenticated user,
\* u # v, the amount is valid and both users have a wallet with events
ValidTransferStep(p, u, v, a, k) ==
    /\ StartTransfer(p, u, v, a, k, u)
    /\ u # v
    /\ Amount_new_ok(a)
    /\ get_wallet_account_id(accounts, u) \in WalletAggregates
    /\ get_wallet_account_id(accounts, v) \in WalletAggregates

\* the transfer handler has returned `result` in this step and nothing was
\* written: no event, no key row, no projection row; no append was started
RefusedWithoutEffect(p, result) ==
    /\ task'[p].pc = "done"
    /\ task'[p].result = result
    /\ UNCHANGED <<events, idempotency_keys, account_balances, ledger_entries,
                   event_snapshots, ncmd>>

\* C19 as stated: a transfer whose amount exceeds the sender's balance fails
\* with InsufficientBalance and has no effect
C19_InsufficientBalanceAlways ==
    [][\A p \in Procs, u \in Users, v \in Users, a \in AmountInputs, k \in KeyInputs :
          ( /\ ValidTransferStep(p, u, v, a, k)
            /\ a > EventNet(get_wallet_account_id(accounts, u)) )
          => RefusedWithoutEffect(p, "InsufficientBalance")]_vars

\* C19: a transfer whose amount exceeds the balance of a sender that is not
\* Frozen fails with InsufficientBalance and has no effect: no event is
\* appended, no idempotency-key row is created or changed, and
\* account_balances and ledger_entries are unchanged
C19_InsufficientBalance ==
    [][\A p \in Procs, u \in Users, v \in Users, a \in AmountInputs, k \in KeyInputs :
          ( /\ ValidTransferStep(p, u, v, a, k)
            /\ a > EventNet(get_wallet_account_id(accounts, u))
            /\ ~IsFrozen(get_wallet_account_id(accounts, u)) )
          => RefusedWithoutEffect(p, "InsufficientBalance")]_vars

\* C19 witness: a transfer was refused with InsufficientBalance although the
\* wallet of the other user is Frozen (the sender's check comes first)
C19_Witness ==
    \E p \in Procs :
        /\ task[p].pc = "done" /\ task[p].kind = "transfer"
        /\ task[p].result = "InsufficientBalance"
        /\ Cardinality(WalletAggregates) = 2
        /\ \E w \in WalletAggregates : IsFrozen(w) /\ EventNet(w) > 0

\* C20 as stated: a transfer whose sender account or recipient account is
\* Frozen fails with AccountFrozen, the account remains Frozen, and nothing
\* is appended or projected
C20_FrozenAlways ==
    [][\A p \in Procs, u \in Users, v \in Users, a \in AmountInputs, k \in KeyInputs :
          LET from_id == get_wallet_account_id(accounts, u)
              to_id == get_wallet_account_id(accounts, v)
          IN ( /\ ValidTransferStep(p, u, v, a, k)
               /\ IsFrozen(from_id) \/ IsFrozen(to_id) )
             => RefusedWithoutEffect(p, "AccountFrozen")]_vars

\* C20: a transfer whose sender account is Frozen fails with AccountFrozen,
\* and so does a transfer whose recipient account is Frozen when the sender
\* is not Frozen and its balance covers the amount; the account remains
\* Frozen, no event is appended and no projection row changes
C20_Frozen ==
    [][\A p \in Procs, u \in Users, v \in Users, a \in AmountInputs, k \in KeyInputs :
          LET from_id == get_wallet_account_id(accounts, u)
              to_id == get_wallet_account_id(accounts, v)
          IN ( /\ ValidTransferStep(p, u, v, a, k)
               /\ \/ IsFrozen(from_id)
                  \/ IsFrozen(to_id) /\ a <= EventNet(from_id) )
             => /\ RefusedWithoutEffect(p, "AccountFrozen")
                /\ IsFrozen(from_id)' = IsFrozen(from_id)
                /\ IsFrozen(to_id)' = IsFrozen(to_id)]_vars

\* C20 witness: a transfer was refused with AccountFrozen while the Frozen
\* wallet is the empty one, so the sender of a refused transfer out of it
\* could not have covered any amount
C20_Witness ==
    \E p \in Procs :
        /\ task[p].pc = "done" /\ task[p].kind = "transfer"
        /\ task[p].result = "AccountFrozen"
        /\ \E w \in WalletAggregates : IsFrozen(w) /\ EventNet(w) = 0
        /\ \A w \in WalletAggregates : IsFrozen(w) => EventNet(w) = 0

\* C21: a transfer whose request_user_id is missing, differs from the sender,
\* or whose sender is the recipient, is refused with MissingHeader,
\* UnauthorizedTransfer or InvalidRequest (in this order of precedence),
\* whatever the users, wallets, amount and key are, and nothing is appended or
\* projected and no append is started
C21_TransferAuthorized ==
    [][\A p \in Procs :
          (task[p].pc = "idle" /\ task'[p].pc # "idle")
          => \A u \in Users, v \in Users, a \in AmountInputs, k \in KeyInputs,
                r \in Users \cup {NoUser} :
                ( /\ r = NoUser \/ r # u \/ u = v
                  /\ StartTransfer(p, u, v, a, k, r) )
                => RefusedWithoutEffect(p, IF r = NoUser THEN "MissingHeader"
                                           ELSE IF r # u THEN "UnauthorizedTransfer"
                                           ELSE "InvalidRequest")]_vars

\* C21 witness: a transfer has been refused as unauthorized
C21_Witness ==
    \E p \in Procs :
        /\ task[p].pc = "done" /\ task[p].kind = "transfer"
        /\ task[p].result = "UnauthorizedTransfer"
        /\ task[p].seq = 0

\* the entries the last verification examined
Examined == select_entries(audit_logs, verification.limit)

\* check (i): the previous_hash of the i-th examined entry is the current_hash
\* of its predecessor, the all-zero hash for the first
LinkHolds(i) ==
    Examined[i].previous_hash =
        IF i = 1 THEN ZeroHash ELSE Examined[i - 1].current_hash

\* check (ii): the current_hash is the hash recomputed from the entry's fields
HashHolds(i) == Examined[i].current_hash = sha256_hex(hash_input(Examined[i]))

InvalidEntries == {i \in 1..Len(Examined) : ~LinkHolds(i) \/ ~HashHolds(i)}

\* C23: a verification reports is_valid with entries_checked = the number of
\* examined entries iff every examined entry passes checks (i) and (ii);
\* otherwise it reports the lowest-sequence entry that fails one of them; an
\* empty log is valid with entries_checked = 0
C23_VerifierDecides ==
    verification # NoResult
    => /\ verification.is_valid <=> InvalidEntries = {}
       /\ verification.is_valid
            => /\ verification.entries_checked = Len(Examined)
               /\ verification.first_invalid_entry = 0
       /\ ~verification.is_valid
            => verification.first_invalid_entry = Examined[MinOf(InvalidEntries)].id
       /\ audit_logs = <<>> => verification.is_valid /\ verification.entries_checked = 0

\* C23 witness: the first entry was rewritten and rehashed, so it passes both
\* checks, and the verifier stopped at the second entry, whose link is broken
C23_Witness ==
    /\ verification # NoResult
    /\ ~verification.is_valid
    /\ Len(Examined) >= 2
    /\ Examined[1].action = "tampered"
    /\ HashHolds(1) /\ HashHolds(2) /\ ~LinkHolds(2)
    /\ verification.first_invalid_entry = Examined[2].id

\* the entry in the middle of the chain
MiddleSeq == ChainLen \div 2

\* C22: when the current_hash of the entry in the middle of a valid chain
\* (sequence 50 of 100) has been overwritten, verify_hash_chain(1000) reports
\* is_valid = false, first_invalid_entry = the id of the next entry
\* (sequence 51) and entries_checked = that entry's sequence number
C22_TamperFoundAtNextEntry ==
    ( /\ verification.limit = DEFAULT_LIMIT
      /\ Len(audit_logs) = ChainLen
      /\ audit_logs[MiddleSeq].current_hash = JunkHash )
    => /\ ~verification.is_valid
       /\ verification.first_invalid_entry = audit_logs[MiddleSeq + 1].id
       /\ verification.entries_checked = MiddleSeq + 1

\* the action an audit record of a command carries (AuditAction::as_str)
AuditActionOf(kind) ==
    CASE kind = "transfer" -> "transfer.executed"
      [] kind = "mint" -> "mint.executed"
      [] kind = "burn" -> "burn.executed"
      [] kind = "create_user" -> "user.created"
      [] OTHER -> "none"

\* C24: whenever a transfer, mint, burn or create-user command that committed
\* events returns success, audit_logs holds an entry for that command
C24_SuccessIsAudited ==
    \A p \in Procs :
        ( /\ task[p].pc = "done" /\ task[p].result = "Ok"
          /\ task[p].kind \in {"transfer", "mint", "burn", "create_user"}
          /\ \E e \in events : e.id \in {task[p].event_ids[i] : i \in 1..Len(task[p].event_ids)}
                               /\ RunOf(e.id) = task[p].seq )
        => \E i \in 1..Len(audit_logs) : audit_logs[i].action = AuditActionOf(task[p].kind)

\* C25: whenever the projection of a transfer, mint or burn run updates an
\* account_balances row, the row's last_event_version grows strictly and
\* afterwards equals the version of the event that run appended to that account
C25_LastEventVersion ==
    [][\A p \in Procs :
          (task[p].pc = "project" /\ task'[p].pc = "done")
          => \A a \in DOMAIN account_balances :
                account_balances'[a] # account_balances[a]
                => /\ account_balances'[a].last_event_version
                        > account_balances[a].last_event_version
                   /\ \E e \in EventsOfRun(task[p].seq) :
                         /\ e.aggregate_id = a
                         /\ e.version = account_balances'[a].last_event_version]_vars

\* no command is in flight: every task is idle
Quiescent == \A p \in Procs : task[p].pc = "idle"

\* C26: whenever no command is in flight, the account_balances balance of
\* every user_wallet account equals the balance obtained by folding
\* Account::apply over the account's committed events in version order
C26_ProjectionIsFold ==
    Quiescent
    => \A a \in WalletAggregates :
          ProjectedBalance(account_balances, a)
            = replay(DefaultAccount, {e \in events : e.aggregate_id = a}).balance

\* C27: in every reachable state the account_balances balance of every
\* user_wallet account is >= 0
C27_ProjectedBalanceNonNegative ==
    \A a \in WalletAggregates : ProjectedBalance(account_balances, a) >= 0

\* the UserCreated event of a user and the AccountCreated event of its wallet
\* are committed
UserEventsCommitted(u) ==
    /\ \E e \in events : e.event_type = "UserCreated" /\ e.aggregate_id = u
    /\ \E e \in events : /\ e.event_type = "AccountCreated"
                         /\ e.user_id = u
                         /\ e.account_type = "user_wallet"

\* the users row, the user_wallet accounts row and its account_balances row
\* with balance 0 are committed
UserRowsCommitted(u) ==
    /\ \E r \in users : r.id = u
    /\ \E a \in accounts : /\ a.user_id = u
                           /\ a.account_type = "user_wallet"
                           /\ a.id \in DOMAIN account_balances
                           /\ account_balances[a.id].balance = 0

\* C28: create-user is all-or-nothing: once the command has returned, the
\* UserCreated and AccountCreated events of a user are committed if and only
\* if its users, accounts and account_balances rows are committed
C28_CreateUserAllOrNothing ==
    Quiescent => \A u \in CreateUsers : UserEventsCommitted(u) <=> UserRowsCommitted(u)

\* C29: a handler that got ConcurrencyConflict from the event store returns
\* AppError::VersionConflict
C29_ConflictSurfacesAsVersionConflict ==
    \A p \in Procs :
        (task[p].pc = "done" /\ task[p].store_error = "ConcurrencyConflict")
        => task[p].result = "VersionConflict"

\* C30: a failure to write a snapshot after the events and the projection of
\* a command are committed does not fail the command: the step that
\* projects and snapshots ends with the handler's success result
C30_SnapshotFailureNotFatal ==
    [][\A p \in Procs :
          (task[p].pc = "project" /\ task'[p].pc = "done")
          => task'[p].result = "Ok"]_vars

\* the pcs of a task inside try_append_atomic
InAttempt == {"tx_begin", "tx_key_insert", "tx_read", "tx_insert", "tx_commit"}

\* the version check the task is about to make fails with ConcurrencyConflict
VersionCheckFails(p) ==
    /\ task[p].pc = "tx_read"
    /\ LET op == task[p].ops[task[p].idx]
       IN ~version_matches(
              get_current_version(events \cup PendingSet(task[p]), op.aggregate_id),
              op.expected_version)

\* C31: an append_atomic call makes at most MAX_RETRIES attempts; it starts a
\* further attempt only when an attempt failed with ConcurrencyConflict; an
\* attempt that fails with another error ends the call with that error; the
\* call returns ConcurrencyConflict only from its last attempt
C31_RetryOnlyOnConflict ==
    [][\A p \in Procs :
          /\ task[p].attempt < MAX_RETRIES
          /\ task'[p].attempt > task[p].attempt
             => /\ VersionCheckFails(p)
                /\ task'[p].attempt = task[p].attempt + 1
                /\ task'[p].pc = "tx_begin"
          /\ (task[p].pc \in InAttempt /\ task'[p].pc = "done"
                /\ task'[p].store_error = "ConcurrencyConflict")
             => (VersionCheckFails(p) /\ task[p].attempt = MAX_RETRIES - 1)
          /\ (task[p].pc \in InAttempt /\ ~VersionCheckFails(p)
                /\ task'[p].pc \notin InAttempt /\ task'[p].store_error # "none")
             => (task'[p].pc = "done"
                 /\ task'[p].store_error \in {"IdempotencyKeyExists", "Database"})]_vars

\* a call is about to fail its third and last attempt with
\* ConcurrencyConflict: a run that started later has committed its events
C31_Witness ==
    \E p \in Procs :
        /\ task[p].pc = "tx_read" /\ task[p].attempt = MAX_RETRIES - 1
        /\ VersionCheckFails(p)
        /\ \E e \in events : RunOf(e.id) > task[p].seq

\* the events of an aggregate up to a version
EventsUpTo(agg, version) ==
    {e \in events : e.aggregate_id = agg /\ e.version <= version}

\* the snapshot row is not ahead of the aggregate's committed events
SnapshotVersionCommitted(agg) ==
    event_snapshots[agg].version <= get_current_version(events, agg)

\* the snapshot row holds the fold of apply over the events up to its version
SnapshotStateIsFold(agg) ==
    event_snapshots[agg].state
        = replay(DefaultAccount, EventsUpTo(agg, event_snapshots[agg].version))

\* C32: every event_snapshots row of an aggregate has a version that is at
\* most the aggregate's highest committed event version, and its state is the
\* fold of apply over the aggregate's committed events up to that version
C32_SnapshotMatchesEvents ==
    \A agg \in DOMAIN event_snapshots :
        SnapshotVersionCommitted(agg) /\ SnapshotStateIsFold(agg)

\* C33: once an idempotency_keys row is completed, no step changes its status
\* or its cached event id
C33_CompletedStaysCompleted ==
    [][\A k \in Keys :
          idempotency_keys[k].status = "completed"
          => /\ idempotency_keys'[k].status = "completed"
             /\ idempotency_keys'[k].event_id = idempotency_keys[k].event_id]_vars

\* the committed UserCreated events of a user id
UserCreatedEvents(u) ==
    {e \in events : e.event_type = "UserCreated" /\ e.aggregate_id = u}

\* the committed AccountCreated events of the user_wallet accounts of a user
WalletCreatedEvents(u) ==
    {e \in events : /\ e.event_type = "AccountCreated"
                    /\ e.user_id = u
                    /\ e.account_type = "user_wallet"}

\* C34: of the create-user commands that name one user_id, run concurrently or
\* not, at most one succeeds: every success has the UserCreated event of its
\* own run committed, and there is at most one UserCreated event, at most one
\* AccountCreated event of a user_wallet and at most one user_wallet accounts
\* row for the user
C34_OneUserPerId ==
    /\ \A u \in CreateUsers :
          /\ Cardinality(UserCreatedEvents(u)) <= 1
          /\ Cardinality(WalletCreatedEvents(u)) <= 1
          /\ Cardinality({a \in accounts : a.user_id = u
                                           /\ a.account_type = "user_wallet"}) <= 1
    /\ \A p \in Procs :
          (task[p].pc = "done" /\ task[p].kind = "create_user" /\ task[p].result = "Ok")
          => \E e \in events : /\ e.event_type = "UserCreated"
                               /\ RunOf(e.id) = task[p].seq

\* two create-user commands named the same user_id and ran concurrently: the
\* first has committed its events, the second has returned an error
C34_Witness ==
    \E p \in Procs, q \in Procs, u \in CreateUsers :
        /\ task[p].kind = "create_user" /\ task[p].pc = "cu_rows" /\ task[p].user = u
        /\ task[q].kind = "create_user" /\ task[q].pc = "done"
        /\ task[q].result = "Internal"
        /\ task[q].seq > task[p].seq
        /\ UserCreatedEvents(u) # {}

StaleProcessing(k) ==
    /\ idempotency_keys[k].status = "processing"
    /\ idempotency_keys[k].processing_started_at < now - STALE_MINUTES

\* C37: under fair scheduling of the maintenance loop, a row that has been
\* processing for more than STALE_MINUTES is eventually failed; the job leaves
\* every other row unchanged; and an append_atomic call that finds the failed
\* row is not refused with IdempotencyKeyExists but goes on to append
C37_StaleKeyRecovered ==
    /\ \A k \in Keys : StaleProcessing(k) ~> (idempotency_keys[k].status = "failed")
    /\ [][\A k \in Keys :
             (idempotency_keys'[k] # idempotency_keys[k] /\ ~StaleProcessing(k))
             => idempotency_keys'[k].status # "failed"]_vars
    /\ [][\A p \in Procs :
             ( /\ task[p].pc = "tx_begin" /\ task[p].key # NoKey
               /\ idempotency_keys[task[p].key].status = "failed"
               /\ task'[p] # task[p] )
             => task'[p].pc = "tx_read"]_vars

\* the job has failed a stale row, and an append_atomic call under that key
\* has committed its events
C37_Witness ==
    \E p \in Procs :
        /\ task[p].pc = "project" /\ task[p].key # NoKey
        /\ idempotency_keys[task[p].key].request_hash \in Hashes
        /\ idempotency_keys[task[p].key].status = "completed"
        /\ now > STALE_MINUTES

\* C38: Account::debit on any account and Amount: AccountFrozen whenever the
\* account is Frozen, whatever the balance; otherwise InsufficientBalance if
\* and only if balance < amount; otherwise Ok with a MoneyDebited event of the
\* account that carries the amount
C38_DebitDecides ==
    \A amount \in DebitAmounts :
        LET r == debit(aggregate, amount)
            ev == debit_event(aggregate, amount)
        IN /\ aggregate.status = "Frozen" => r = "AccountFrozen"
           /\ aggregate.status # "Frozen"
              => /\ r = "InsufficientBalance" <=> aggregate.balance < amount
                 /\ r # "AccountFrozen"
           /\ (aggregate.status # "Frozen" /\ aggregate.balance >= amount)
              => /\ r = "Ok"
                 /\ ev.event_type = "MoneyDebited"
                 /\ ev.amount = amount
                 /\ ev.aggregate_id = aggregate.id

\* a debit of exactly the balance has succeeded, and the account was frozen
\* afterwards with nothing left to debit
C38_Witness ==
    /\ Len(applied) = 4
    /\ applied[2].event_type = "MoneyCredited"
    /\ applied[3].event_type = "MoneyDebited"
    /\ applied[3].amount = applied[2].amount
    /\ applied[4].event_type = "AccountFrozen"
    /\ aggregate.balance = 0
    /\ aggregate.status = "Frozen"

\* C40: for a month with D days, should_create_partitions is true on days
\* D-2, D-1 and D and false on every earlier day
C40_LastThreeDays ==
    should_create_partitions(today)
    <=> today.day >= days_in_month(today.year, today.month) - 2

\* deactivate and reactivate are state-guarded on the user in memory
UserStatusGuards ==
    /\ User_deactivate(aggregate) = "Ok" <=> aggregate.status = "Active"
    /\ User_reactivate(aggregate) = "Ok" <=> aggregate.status = "Deactivated"
    /\ aggregate.status \in {"Active", "Deactivated"}

\* in the stream, event i was produced while the user was Deactivated
DeactivatedBefore(i) ==
    \E j \in 1..(i - 1) :
        /\ applied[j].event_type = "UserDeactivated"
        /\ \A m \in (j + 1)..(i - 1) : applied[m].event_type # "UserReactivated"

\* UserDeactivated and UserReactivated alternate, and no UserUpdated occurs
\* while the user is Deactivated
UserStreamGuarded ==
    \A i \in 1..Len(applied) :
        /\ applied[i].event_type = "UserDeactivated" => ~DeactivatedBefore(i)
        /\ applied[i].event_type = "UserReactivated" => DeactivatedBefore(i)
        /\ applied[i].event_type = "UserUpdated" => ~DeactivatedBefore(i)

\* C39 as stated: update rejects every empty diff with InvalidRequest and
\* every Deactivated user with UserNotFound; deactivate and reactivate are
\* state-guarded; the streams alternate and hold no update of a Deactivated user
C39_UserStateGuardedAsStated ==
    applied # <<>>
    => /\ \A c \in ChangeInputs :
             /\ c = NoChanges => User_update(aggregate, c) = "InvalidRequest"
             /\ aggregate.status = "Deactivated"
                => User_update(aggregate, c) = "UserNotFound"
       /\ UserStatusGuards
       /\ UserStreamGuarded

\* C39: update rejects a Deactivated user with UserNotFound, whatever the
\* diff, and an empty diff of an Active user with InvalidRequest; deactivate
\* succeeds only from Active and reactivate only from Deactivated; in every
\* stream the commands produce UserDeactivated and UserReactivated alternate
\* and no UserUpdated occurs while the user is Deactivated
C39_UserStateGuarded ==
    applied # <<>>
    => /\ \A c \in ChangeInputs :
             /\ aggregate.status = "Deactivated"
                => User_update(aggregate, c) = "UserNotFound"
             /\ (aggregate.status = "Active" /\ c = NoChanges)
                => User_update(aggregate, c) = "InvalidRequest"
             /\ (aggregate.status = "Active" /\ c # NoChanges)
                => User_update(aggregate, c) = "Ok"
       /\ UserStatusGuards
       /\ UserStreamGuarded

\* a user was deactivated, reactivated and deactivated again: an update with
\* an empty diff now meets a Deactivated user
C39_Witness ==
    /\ Len(applied) = 4
    /\ applied[1].event_type = "UserCreated"
    /\ applied[2].event_type = "UserDeactivated"
    /\ applied[3].event_type = "UserReactivated"
    /\ applied[4].event_type = "UserDeactivated"
    /\ aggregate.status = "Deactivated"
    /\ aggregate.version = 4

\* the users row of a user shows the fold of User::apply over the user's
\* committed events
UsersRowIsFold(r) ==
    LET user == load_user(events, r.id).state
    IN /\ r.display_name = user.display_name
       /\ r.email = user.email
       /\ r.is_active = (user.status = "Active")

\* C35: whenever no command is in flight, the users row (display_name, email,
\* is_active) of every user with events equals the fold of User::apply over
\* the user's committed events in version order
C35_UsersRowIsFold ==
    Quiescent => \A r \in users : load_user(events, r.id).found => UsersRowIsFold(r)

====
